---- MODULE Spec2Model ----
(***************************************************************************)
(* Magneato: DSK container parsing (ParseDSK), the payload codecs, Unpack   *)
(* to a directory tree and Pack back to a container.                        *)
(*                                                                          *)
(* Bytes are naturals 0..255; byte strings and Go strings are sequences of  *)
(* bytes.  A file is a byte sequence; a directory is a function from the    *)
(* names it holds to their contents.                                        *)
(***************************************************************************)
EXTENDS Integers, Sequences, FiniteSets, TLC

VARIABLES
    cdata,      \* codec: the byte sequence handed to encodeASCIIHex
    cenc,       \* codec: the encoded text
    cres,       \* codec: the result of decodeASCIIHex, [ok, bytes]
    cpc,        \* codec: "in" | "encoded" | "decoded" | "idle"
    image,      \* the container file given to ParseDSK
    dataFormat, \* the --data-format given to Unpack
    dsk,        \* the result of ParseDSK(image)
    fs,         \* the directory tree Unpack writes and Pack reads
    packed,     \* the result of Pack: its error and the output file
    dsk2,       \* the result of ParseDSK on the output file
    edit,       \* what was changed in the tree between Unpack and Pack
    pc,         \* "start" | "parsed" | "unpacked" | "edited" | "packed" | "done" | "idle"
    args,       \* the argument list handed to ParseUnpackArgs
    unpackArgs  \* what ParseUnpackArgs returned: its error and the UnpackArgs

codecVars == <<cdata, cenc, cres, cpc>>
diskVars == <<image, dataFormat, dsk, fs, packed, dsk2, edit, pc>>
argVars == <<args, unpackArgs>>
vars == <<cdata, cenc, cres, cpc, image, dataFormat, dsk, fs, packed, dsk2, edit, pc,
          args, unpackArgs>>

(***************************************************************************)
(* Bounds of the model.                                                     *)
(***************************************************************************)
MaxCodecLen == 5
\* the most track positions (tracks * sides) of a generated container
MaxBlocks == 2

(***************************************************************************)
(* Byte and text helpers.                                                   *)
(***************************************************************************)
minRLE == 4

Max(a, b) == IF a > b THEN a ELSE b
Min(a, b) == IF a < b THEN a ELSE b

\* n copies of byte b
Rep(b, n) == [k \in 1..n |-> b]

\* upperhex / lowerhex digit of a nibble
UpperHexDigit(n) == IF n < 10 THEN 48 + n ELSE 55 + n
LowerHexDigit(n) == IF n < 10 THEN 48 + n ELSE 87 + n

isHexDigit(b) ==
    (b >= 48 /\ b <= 57) \/ (b >= 65 /\ b <= 70) \/ (b >= 97 /\ b <= 102)

HexVal(c) ==
    IF c >= 48 /\ c <= 57 THEN c - 48
    ELSE IF c >= 65 /\ c <= 70 THEN c - 55
    ELSE c - 87

\* fmt.Sprintf("%02X", b) for a byte
Fmt02X(b) == <<UpperHexDigit(b \div 16), UpperHexDigit(b % 16)>>

\* fmt.Sprintf("%X", n) for n >= 0
RECURSIVE FmtX(_)
FmtX(n) ==
    IF n < 16 THEN <<UpperHexDigit(n)>>
    ELSE Append(FmtX(n \div 16), UpperHexDigit(n % 16))

\* the value of a string of at most 8 hex digits below 2^31
RECURSIVE HexNum(_)
HexNum(s) ==
    IF Len(s) = 0 THEN 0
    ELSE 16 * HexNum(SubSeq(s, 1, Len(s) - 1)) + HexVal(s[Len(s)])

AllHex(s) == \A k \in 1..Len(s) : isHexDigit(s[k])

\* strconv.ParseUint(s, 16, 8) of a two-character string
ParseHexByte(s) ==
    IF AllHex(s) THEN [ok |-> TRUE, val |-> HexNum(s)]
    ELSE [ok |-> FALSE, val |-> 0]

\* ParseHexCount, were a missing or too large count taken as 0
ParseHexCountOrZero(s) == [ok |-> TRUE, val |-> 0]

\* strconv.ParseInt(s, 16, 32) of a string of hex digits: empty or out of
\* the 32-bit signed range is an error
ParseHexCount(s) ==
    LET n     == Len(s)
        low   == SubSeq(s, Max(1, n - 7), n)
        above == \E k \in 1..(n - 8) : s[k] # 48
    IN  IF n = 0 \/ above \/ (Len(low) = 8 /\ HexVal(low[1]) >= 8)
        THEN [ok |-> FALSE, val |-> 0]
        ELSE [ok |-> TRUE, val |-> HexNum(low)]

\* A loop "for j := lo; j <= hi; j++ { st = Step(st, j) }" over a record st.
\* The range is halved so that the evaluation stays shallow.
RECURSIVE Fold(_, _, _, _)
Fold(Step(_, _), st, lo, hi) ==
    IF lo > hi \/ DOMAIN st = {} THEN st
    ELSE IF lo = hi THEN Step(st, lo)
    ELSE LET mid == (lo + hi) \div 2
         IN  Fold(Step, Fold(Step, st, lo, mid), mid + 1, hi)

(***************************************************************************)
(* ASCII/Hex hybrid codec.                                                  *)
(***************************************************************************)
\* countRepeats(data[i:]) for every i, computed from the end of data: the
\* run that starts at i is one longer than the run at i + 1 when the two
\* bytes are equal
RunStep(data, st, j) ==
    LET i == Len(data) - j + 1
    IN  [runs |-> <<IF j > 1 /\ data[i + 1] = data[i] THEN st.runs[1] + 1 ELSE 1>>
                    \o st.runs]

countRepeats(data) ==
    LET Step(st, j) == RunStep(data, st, j)
    IN  Fold(Step, [runs |-> <<>>], 1, Len(data)).runs

Freq(data, b) == Cardinality({k \in 1..Len(data) : data[k] = b})

Printable == 32..126

\* the second loop of chooseToggle: the first byte of least frequency below
\* len(data), '~' when none is below
LeastFrequent(data, b, minFreq, minByte) ==
    LET Step(st, c) ==
            IF Freq(data, c) < st.minFreq
            THEN [minFreq |-> Freq(data, c), minByte |-> c]
            ELSE st
    IN  Fold(Step, [minFreq |-> minFreq, minByte |-> minByte], b, 126).minByte

chooseToggle(data) ==
    LET unused == {b \in Printable : Freq(data, b) = 0}
    IN  IF unused # {}
        THEN CHOOSE b \in unused : \A c \in unused : b <= c
        ELSE LeastFrequent(data, 32, Len(data), 126)

\* encodeStep, were every printable byte, the toggle too, taken as text
encodeStepAnyPrintable(data, toggle, runs, st, j) ==
    IF st.i # j THEN st
    ELSE
      LET runLen == runs[j]
      IN  IF runLen >= minRLE
          THEN [i |-> j + runLen, inHex |-> TRUE, lit |-> st.lit,
                acc |-> (IF st.inHex THEN st.acc ELSE Append(st.acc, toggle))
                          \o Fmt02X(data[j]) \o <<42>> \o FmtX(runLen)]
          ELSE
            LET isASCII == data[j] >= 32 /\ data[j] <= 126
                switch  == (isASCII /\ st.inHex) \/ (~isASCII /\ ~st.inHex)
                nowHex  == ~isASCII
                acc1    == IF switch THEN Append(st.acc, toggle) ELSE st.acc
            IN  [i |-> j + 1, inHex |-> nowHex,
                 lit |-> IF nowHex THEN st.lit ELSE Append(st.lit, data[j]),
                 acc |-> IF nowHex THEN acc1 \o Fmt02X(data[j])
                         ELSE Append(acc1, data[j])]

\* one turn of the loop of encodeASCIIHex, taken when the loop is at byte j;
\* st.i is the loop variable (from 1), st.lit the input bytes copied as text
encodeStep(data, toggle, runs, st, j) ==
    IF st.i # j THEN st
    ELSE
      LET runLen == runs[j]
      IN  IF runLen >= minRLE
          THEN [i |-> j + runLen, inHex |-> TRUE, lit |-> st.lit,
                acc |-> (IF st.inHex THEN st.acc ELSE Append(st.acc, toggle))
                          \o Fmt02X(data[j]) \o <<42>> \o FmtX(runLen)]
          ELSE
            LET isASCII == data[j] >= 32 /\ data[j] <= 126 /\ data[j] # toggle
                switch  == (isASCII /\ st.inHex) \/ (~isASCII /\ ~st.inHex)
                nowHex  == ~isASCII
                acc1    == IF switch THEN Append(st.acc, toggle) ELSE st.acc
            IN  [i |-> j + 1, inHex |-> nowHex,
                 lit |-> IF nowHex THEN st.lit ELSE Append(st.lit, data[j]),
                 acc |-> IF nowHex THEN acc1 \o Fmt02X(data[j])
                         ELSE Append(acc1, data[j])]

encodeScan(data) ==
    LET toggle == chooseToggle(data)
        runs   == countRepeats(data)
        Step(st, j) == encodeStep(data, toggle, runs, st, j)
    IN  Fold(Step, [i |-> 1, inHex |-> FALSE, lit |-> <<>>, acc |-> <<>>],
             1, Len(data))

encodeASCIIHex(data) ==
    IF Len(data) = 0 THEN <<>>
    ELSE Append(encodeScan(data).acc, chooseToggle(data))

\* the end of the run count that starts at position p (1-based)
RECURSIVE rleEndFrom(_, _)
rleEndFrom(enc, p) ==
    IF p <= Len(enc) /\ isHexDigit(enc[p]) THEN rleEndFrom(enc, p + 1) ELSE p

DecodeError == [ok |-> FALSE, bytes |-> <<>>]

\* one turn of the loop of decodeASCIIHex over enc (the input without its
\* last byte), taken when the loop is at byte j; positions are from 1, so
\* Go's i is st.i - 1
decodeStep(enc, toggle, st, j) ==
    LET failed == [i |-> j, inHex |-> st.inHex, acc |-> st.acc, ok |-> FALSE]
    IN
    IF st.i # j \/ ~st.ok THEN st
    ELSE IF enc[j] = toggle
         THEN [i |-> j + 1, inHex |-> ~st.inHex, acc |-> st.acc, ok |-> TRUE]
    ELSE IF ~st.inHex
         THEN [i |-> j + 1, inHex |-> FALSE, acc |-> Append(st.acc, enc[j]),
               ok |-> TRUE]
    ELSE IF j + 1 > Len(enc) THEN failed
    ELSE
      LET hb == ParseHexByte(SubSeq(enc, j, j + 1))
      IN  IF j + 2 <= Len(enc) /\ enc[j + 2] = 42
          THEN
            LET rleEnd == rleEndFrom(enc, j + 3)
                cnt    == ParseHexCount(SubSeq(enc, j + 3, rleEnd - 1))
            IN  IF ~hb.ok \/ ~cnt.ok THEN failed
                ELSE [i |-> rleEnd, inHex |-> TRUE,
                      acc |-> st.acc \o Rep(hb.val, cnt.val), ok |-> TRUE]
          ELSE IF ~hb.ok THEN failed
               ELSE [i |-> j + 2, inHex |-> TRUE, acc |-> Append(st.acc, hb.val),
                     ok |-> TRUE]

decodeASCIIHex(encoded) ==
    IF Len(encoded) = 0 THEN DecodeError
    ELSE
      LET enc    == SubSeq(encoded, 1, Len(encoded) - 1)
          toggle == encoded[Len(encoded)]
          Step(st, j) == decodeStep(enc, toggle, st, j)
          end    == Fold(Step, [i |-> 1, inHex |-> FALSE, acc |-> <<>>, ok |-> TRUE],
                         1, Len(enc))
      IN  IF end.ok THEN [ok |-> TRUE, bytes |-> end.acc] ELSE DecodeError

(***************************************************************************)
(* Hexadecimal codec: hex.EncodeToString / hex.DecodeString.                *)
(***************************************************************************)
hexEncode(data) ==
    [k \in 1..(2 * Len(data)) |->
        IF k % 2 = 1 THEN LowerHexDigit(data[(k + 1) \div 2] \div 16)
        ELSE LowerHexDigit(data[k \div 2] % 16)]

\* odd length (hex.ErrLength) or a byte that is no hex digit is an error
hexDecode(text) ==
    IF Len(text) % 2 = 1 \/ ~AllHex(text) THEN DecodeError
    ELSE [ok |-> TRUE,
          bytes |-> [k \in 1..(Len(text) \div 2) |->
                        16 * HexVal(text[2 * k - 1]) + HexVal(text[2 * k])]]

(***************************************************************************)
(* Quoted-printable codec: mime/quotedprintable Writer (Binary = false)     *)
(* and Reader, as ReadQuotedFormat and WriteQuotedFormat use them.          *)
(***************************************************************************)
lineMaxLen == 76

isWhitespace(b) == b = 32 \/ b = 9

\* Writer.encode: "=XX", after a soft line break when the line is full
qpEncodeByte(w, b) ==
    LET w1 == IF lineMaxLen - 1 - Len(w.line) < 3
              THEN [w EXCEPT !.out = w.out \o w.line \o <<61, 13, 10>>,
                             !.line = <<>>]
              ELSE w
    IN  [w1 EXCEPT !.line = w1.line \o <<61>> \o Fmt02X(b)]

\* Writer.checkLastByte: a space or tab that ends a line is encoded
qpCheckLastByte(w) ==
    IF Len(w.line) = 0 THEN w
    ELSE LET b == w.line[Len(w.line)]
         IN  IF isWhitespace(b)
             THEN qpEncodeByte([w EXCEPT !.line = SubSeq(w.line, 1, Len(w.line) - 1)], b)
             ELSE w

\* Writer.insertCRLF followed by flush
qpInsertCRLF(w) ==
    [w EXCEPT !.out = w.out \o w.line \o <<13, 10>>, !.line = <<>>]

\* Writer.write of one byte that needs no escape
qpWritePlain(w, b) ==
    IF b = 10 \/ b = 13
    THEN IF w.cr /\ b = 10 THEN [w EXCEPT !.cr = FALSE]
         ELSE qpInsertCRLF(qpCheckLastByte(
                  IF b = 13 THEN [w EXCEPT !.cr = TRUE] ELSE w))
    ELSE LET w1 == IF Len(w.line) = lineMaxLen - 1
                   THEN [w EXCEPT !.out = w.out \o w.line \o <<61, 13, 10>>,
                                  !.line = <<>>]
                   ELSE w
         IN  [w1 EXCEPT !.line = Append(w1.line, b), !.cr = FALSE]

\* Writer.Write, one byte: bytes '!'..'~' but '=', whitespace, CR and LF go
\* through write; every other byte through encode
qpWriteByte(w, b) ==
    IF (b >= 33 /\ b <= 126 /\ b # 61) \/ isWhitespace(b) \/ b = 10 \/ b = 13
    THEN qpWritePlain(w, b)
    ELSE qpEncodeByte(w, b)

\* Write then Close (checkLastByte, flush)
qpEncode(data) ==
    LET Step(w, j) == qpWriteByte(w, data[j])
        w == qpCheckLastByte(
                 Fold(Step, [out |-> <<>>, line |-> <<>>, cr |-> FALSE],
                      1, Len(data)))
    IN  w.out \o w.line

isQPDiscardWhitespace(b) == b = 32 \/ b = 10 \/ b = 13 \/ b = 9

\* bytes.TrimRightFunc(line, isQPDiscardWhitespace): the length kept
qpTrimLen(line) ==
    LET keep == {k \in 1..Len(line) : ~isQPDiscardWhitespace(line[k])}
    IN  IF keep = {} THEN 0 ELSE CHOOSE k \in keep : \A m \in keep : m <= k

\* one turn of the byte loop of Reader.Read over a line, taken at byte j
qpLineStep(line, st, j) ==
    IF st.i # j \/ ~st.ok THEN st
    ELSE LET b == line[j]
         IN  IF b = 61
             THEN IF j + 2 <= Len(line) /\ AllHex(SubSeq(line, j + 1, j + 2))
                  THEN [st EXCEPT !.i = j + 3,
                           !.acc = Append(st.acc,
                                      16 * HexVal(line[j + 1]) + HexVal(line[j + 2]))]
                  ELSE IF j + 1 <= Len(line) /\ line[j + 1] # 13 /\ line[j + 1] # 10
                       THEN [st EXCEPT !.i = j + 1, !.acc = Append(st.acc, 61)]
                       ELSE [st EXCEPT !.ok = FALSE]
             ELSE IF b = 9 \/ b = 13 \/ b = 10 \/ b >= 128 \/ (b >= 32 /\ b <= 126)
                  THEN [st EXCEPT !.i = j + 1, !.acc = Append(st.acc, b)]
                  ELSE [st EXCEPT !.ok = FALSE]

\* the bytes of one line, appended to acc
qpDecodeLine(line, acc) ==
    LET Step(st, j) == qpLineStep(line, st, j)
    IN  Fold(Step, [i |-> 1, acc |-> acc, ok |-> TRUE], 1, Len(line))

\* Reader.Read, one line: ReadSlice('\n') from position j of the text, the
\* trailing whitespace trimmed, a soft line break dropped, the line ending
\* put back; taken when the reader is at byte j
qpReadStep(text, st, j) ==
    IF st.p # j \/ ~st.ok THEN st
    ELSE
      LET lfs    == {k \in j..Len(text) : text[k] = 10}
          atEOF  == lfs = {}
          lf     == IF atEOF THEN Len(text) ELSE CHOOSE k \in lfs : \A m \in lfs : k <= m
          whole  == SubSeq(text, j, lf)
          hasLF  == ~atEOF
          hasCR  == hasLF /\ Len(whole) >= 2 /\ whole[Len(whole) - 1] = 13
          keep   == qpTrimLen(whole)
          soft   == keep > 0 /\ whole[keep] = 61
          rest   == SubSeq(whole, keep + 1, Len(whole))
          restOK == (Len(rest) >= 1 /\ rest[1] = 10)
                    \/ (Len(rest) >= 2 /\ rest[1] = 13 /\ rest[2] = 10)
                    \/ (Len(rest) = 0 /\ keep - 1 > 0 /\ atEOF)
          line   == IF soft THEN SubSeq(whole, 1, keep - 1)
                    ELSE IF hasLF
                         THEN SubSeq(whole, 1, keep)
                                \o (IF hasCR THEN <<13, 10>> ELSE <<10>>)
                         ELSE SubSeq(whole, 1, keep)
          got    == qpDecodeLine(line, st.acc)
      IN  [p |-> lf + 1, acc |-> got.acc, ok |-> got.ok /\ (~soft \/ restOK)]

qpDecode(text) ==
    LET Step(st, j) == qpReadStep(text, st, j)
        end == Fold(Step, [p |-> 1, acc |-> <<>>, ok |-> TRUE], 1, Len(text))
    IN  IF end.ok THEN [ok |-> TRUE, bytes |-> end.acc] ELSE DecodeError

(***************************************************************************)
(* Formatter selection.                                                     *)
(***************************************************************************)
Formats == {"binary", "hex", "quoted", "asciihex"}

\* the file extension Unpack gives each format
ExtOf(format) ==
    CASE format = "hex" -> "hex"
      [] format = "quoted" -> "quoted"
      [] format = "asciihex" -> "asciihex"
      [] OTHER -> "bin"

\* GetFormatWriter(format) applied to data: the bytes of the file written
FormatWrite(format, data) ==
    CASE format = "binary" -> data
      [] format = "hex" -> hexEncode(data)
      [] format = "quoted" -> qpEncode(data)
      [] format = "asciihex" -> encodeASCIIHex(data)

\* GetFormatReader(format) applied to the bytes of a file
FormatRead(format, text) ==
    CASE format = "binary" -> [ok |-> TRUE, bytes |-> text]
      [] format = "hex" -> hexDecode(text)
      [] format = "quoted" -> qpDecode(text)
      [] format = "asciihex" -> decodeASCIIHex(text)

(***************************************************************************)
(* The container layout (types.go) and the two parsers.                     *)
(***************************************************************************)
HeaderSize == 256
TrackSizeTableLen == 204

\* data[lo:hi] of Go, offsets from 0
Slice(data, lo, hi) == SubSeq(data, lo + 1, hi)
U8(data, off) == data[off + 1]
LE16(data, off) == data[off + 1] + 256 * data[off + 2]

\* "EXTENDED", "MV - CPC", "Track-Info", "Track-Info\r\n"
TagExtended == <<69, 88, 84, 69, 78, 68, 69, 68>>
TagStandard == <<77, 86, 32, 45, 32, 67, 80, 67>>
TagTrackInfo == <<84, 114, 97, 99, 107, 45, 73, 110, 102, 111>>
TagTrackInfoCRLF == TagTrackInfo \o <<13, 10>>

HasPrefix(s, p) == Len(s) >= Len(p) /\ SubSeq(s, 1, Len(p)) = p

\* binary.Read of a DiskHeader from the first 256 bytes
ReadDiskHeader(data) ==
    [sig     |-> Slice(data, 0, 34),
     creator |-> Slice(data, 34, 48),
     tracks  |-> U8(data, 48),
     sides   |-> U8(data, 49),
     table   |-> Slice(data, 52, 256)]

\* binary.Read of a TrackHeader from the first 24 bytes of a track block
ReadTrackHeader(t) ==
    [sig         |-> Slice(t, 0, 13),
     unused      |-> Slice(t, 13, 16),
     trackNum    |-> U8(t, 16),
     sideNum     |-> U8(t, 17),
     unused2     |-> Slice(t, 18, 20),
     sectorSize  |-> U8(t, 20),
     sectorCount |-> U8(t, 21),
     gap3        |-> U8(t, 22),
     filler      |-> U8(t, 23)]

\* binary.Read of the 8-byte SectorInfo at offset off
ReadSectorInfo(t, off) ==
    [C |-> U8(t, off), H |-> U8(t, off + 1), R |-> U8(t, off + 2),
     N |-> U8(t, off + 3), st1 |-> U8(t, off + 4), st2 |-> U8(t, off + 5),
     len |-> LE16(t, off + 6)]

RECURSIVE Pow2(_)
Pow2(n) == IF n = 0 THEN 1 ELSE 2 * Pow2(n - 1)

\* 128 * (1 << N) in a 64-bit int: 0 from N = 57 on (the shift or the product
\* wraps to 0), negative at N = 56; from N = 24 to 56 the length is negative
\* or beyond what make([]byte, n) allocates here, given as -1
ShiftLen(N) ==
    IF N >= 57 THEN 0
    ELSE IF N >= 24 THEN -1
    ELSE 128 * Pow2(N)

ParseError(msg) ==
    [status |-> msg, format |-> "", header |-> <<>>, trackSize |-> 0,
     tracks |-> <<>>, warnings |-> <<>>]

Warning(kind, a, b) == [kind |-> kind, a |-> a, b |-> b]

\* bytes.Reader.Read of n bytes at position p of block t: what it copies,
\* zero-filled to n, and whether it returned io.EOF
ReaderRead(t, p, n) ==
    LET got == IF p >= Len(t) THEN 0 ELSE Min(n, Len(t) - p)
    IN  [n    |-> got,
         eof  |-> p >= Len(t),
         data |-> Slice(t, p, p + got) \o Rep(0, n - got)]

\* the sector payloads of an Extended track, read back to back from p;
\* make([]byte, secLen) panics on a negative length
RECURSIVE ExtSectors(_, _, _, _, _, _)
ExtSectors(t, infos, s, p, trackNum, acc) ==
    IF s > Len(infos) THEN acc
    ELSE
      LET sInfo  == infos[s]
          secLen == IF sInfo.len = 0 THEN ShiftLen(sInfo.N) ELSE sInfo.len
          rd     == ReaderRead(t, p, secLen)
      IN  IF secLen < 0 THEN [acc EXCEPT !.panic = TRUE]
          ELSE ExtSectors(t, infos, s + 1, p + rd.n, trackNum,
              [panic    |-> FALSE,
               sectors  |-> Append(acc.sectors, [info |-> sInfo, data |-> rd.data]),
               warnings |-> IF rd.eof
                            THEN Append(acc.warnings, Warning("short", trackNum, sInfo.R))
                            ELSE acc.warnings])

\* one track block of an Extended container
ExtTrack(t, i) ==
    LET h      == ReadTrackHeader(t)
        sigBad == ~HasPrefix(h.sig, TagTrackInfo)
        fits   == 24 + 8 * h.sectorCount <= Len(t)
        infos  == [s \in 1..h.sectorCount |-> ReadSectorInfo(t, 24 + 8 * (s - 1))]
        secs   == ExtSectors(t, infos, 1, 24 + 8 * h.sectorCount, h.trackNum,
                             [panic |-> FALSE, sectors |-> <<>>,
                              warnings |-> IF sigBad THEN <<Warning("sig", i, 0)>>
                                           ELSE <<>>])
    IN  IF ~fits
        THEN [status |-> "failed to read sector info", track |-> <<>>, warnings |-> <<>>]
        ELSE IF secs.panic
        THEN [status |-> "panic: makeslice: len out of range", track |-> <<>>,
              warnings |-> <<>>]
        ELSE [status |-> "ok",
              track |-> [header |-> h, sectors |-> secs.sectors],
              warnings |-> secs.warnings]

\* the state of the track loop of parseExtendedDSK: currentOffset, the tracks
\* appended and the warnings printed so far, and the error that ended it
ExtLoopError(msg) == [status |-> msg, at |-> 0, tracks |-> <<>>, warnings |-> <<>>]

\* one turn of the track loop, were every block taken to be 256 bytes long
ExtBlockAtFixedStep(data, h, st, i) ==
    LET trackSize == h.table[i + 1] * 256
        tr == ExtTrack(Slice(data, st.at, st.at + trackSize), i)
    IN  IF st.status # "ok" THEN st
        ELSE IF i >= TrackSizeTableLen THEN ExtLoopError("panic: index out of range")
        ELSE IF trackSize = 0 THEN st
        ELSE IF Len(data) < st.at + trackSize THEN ExtLoopError("file unexpected EOF")
        ELSE IF tr.status # "ok" THEN ExtLoopError(tr.status)
        ELSE [status   |-> "ok",
              at       |-> st.at + HeaderSize,
              tracks   |-> Append(st.tracks, tr.track),
              warnings |-> st.warnings \o tr.warnings]

\* one turn of the track loop, were it to pass over a block the buffer does
\* not hold
ExtBlockAtSkipShort(data, h, st, i) ==
    LET trackSize == h.table[i + 1] * 256
        tr == ExtTrack(Slice(data, st.at, st.at + trackSize), i)
    IN  IF st.status # "ok" THEN st
        ELSE IF i >= TrackSizeTableLen THEN ExtLoopError("panic: index out of range")
        ELSE IF trackSize = 0 THEN st
        ELSE IF Len(data) < st.at + trackSize THEN st
        ELSE IF tr.status # "ok" THEN ExtLoopError(tr.status)
        ELSE [status   |-> "ok",
              at       |-> st.at + trackSize,
              tracks   |-> Append(st.tracks, tr.track),
              warnings |-> st.warnings \o tr.warnings]

\* one turn of the track loop of parseExtendedDSK at position i; indexing the
\* [204]uint8 table at 204 or above is a run-time panic
ExtBlockAt(data, h, st, i) ==
    LET trackSize == h.table[i + 1] * 256
        tr == ExtTrack(Slice(data, st.at, st.at + trackSize), i)
    IN  IF st.status # "ok" THEN st
        ELSE IF i >= TrackSizeTableLen THEN ExtLoopError("panic: index out of range")
        ELSE IF trackSize = 0 THEN st
        ELSE IF Len(data) < st.at + trackSize THEN ExtLoopError("file unexpected EOF")
        ELSE IF tr.status # "ok" THEN ExtLoopError(tr.status)
        ELSE [status   |-> "ok",
              at       |-> st.at + trackSize,
              tracks   |-> Append(st.tracks, tr.track),
              warnings |-> st.warnings \o tr.warnings]

\* the track loop from position 0 and currentOffset = HeaderSize
ExtBlocks(data, h) ==
    LET Step(st, j) == ExtBlockAt(data, h, st, j)
    IN  Fold(Step, [status |-> "ok", at |-> HeaderSize, tracks |-> <<>>,
                    warnings |-> <<>>], 0, h.tracks * h.sides - 1)

parseExtendedDSK(data) ==
    LET h   == ReadDiskHeader(data)
        end == ExtBlocks(data, h)
    IN  IF end.status # "ok" THEN ParseError(end.status)
        ELSE [status |-> "ok", format |-> "extended", header |-> h,
              trackSize |-> 0, tracks |-> end.tracks, warnings |-> end.warnings]

\* the 6-byte sector descriptor of the Standard format, read with
\* bytes.Reader.Read at position p: bytes past the end of the block stay 0
StdSectorInfo(t, p) ==
    LET b == ReaderRead(t, p, 6).data
    IN  [C |-> b[1], H |-> b[2], R |-> b[3], N |-> b[4], st1 |-> b[5],
         st2 |-> b[6], len |-> 0]

\* the isUnformatted loop, were it to run over the whole block
isUnformattedWhole(t) ==
    \A j \in 1..(Len(t) - 1) : t[j + 1] = t[1]

\* the isUnformatted loop: the first min(len, 100) bytes are all the same
isUnformatted(t) ==
    \A j \in 1..(Min(Len(t), 100) - 1) : t[j + 1] = t[1]

EmptyTrackHeader(trackNum, sideNum) ==
    [sig |-> Rep(0, 13), unused |-> Rep(0, 3), trackNum |-> trackNum,
     sideNum |-> sideNum, unused2 |-> Rep(0, 2), sectorSize |-> 0,
     sectorCount |-> 0, gap3 |-> 0, filler |-> 0]

\* the sector payloads of a Standard track, read back to back from position
\* p of the data area d = trackData[0x100:]
RECURSIVE StdSectors(_, _, _, _, _, _, _)
StdSectors(d, infos, s, p, secLen, trackNum, acc) ==
    IF s > Len(infos) THEN acc
    ELSE
      LET rd == ReaderRead(d, p, secLen)
      IN  StdSectors(d, infos, s + 1, p + rd.n, secLen, trackNum,
              [sectors  |-> Append(acc.sectors, [info |-> infos[s], data |-> rd.data]),
               warnings |-> IF rd.n < secLen
                            THEN Append(acc.warnings,
                                        Warning("short", trackNum, infos[s].R))
                            ELSE acc.warnings])

\* one track block of a Standard container, at position i
StdTrack(t, i, sides) ==
    LET h        == ReadTrackHeader(t)
        \* bytes.Equal of the 13 signature bytes and the 12 bytes of expectedSig
        sigValid == Len(h.sig) >= 13 /\ Slice(h.sig, 0, 13) = TagTrackInfoCRLF
        sigWarn  == IF sigValid THEN <<>> ELSE <<Warning("sig", i, 0)>>
        \* the reader gives io.EOF for descriptor s when it starts at the end
        infoEOF  == \E s \in 1..h.sectorCount : 24 + 6 * (s - 1) >= Len(t)
        infos    == [s \in 1..h.sectorCount |-> StdSectorInfo(t, 24 + 6 * (s - 1))]
        secLen   == IF h.sectorSize = 6 THEN 6144 ELSE 128 * Pow2(h.sectorSize)
        d        == Slice(t, 256, Len(t))
        secs     == StdSectors(d, infos, 1, 0, secLen, h.trackNum,
                               [sectors |-> <<>>, warnings |-> sigWarn])
        Fail(msg) == [status |-> msg, track |-> <<>>, warnings |-> <<>>]
    IN  IF ~sigValid /\ isUnformatted(t)
        THEN [status |-> "ok",
              track |-> [header |-> EmptyTrackHeader(i \div sides, i % sides),
                         sectors |-> <<>>],
              warnings |-> <<>>]
        ELSE IF h.sectorCount > 64 THEN Fail("invalid sector count")
        ELSE IF h.sectorCount = 0
        THEN [status |-> "ok", track |-> [header |-> h, sectors |-> <<>>],
              warnings |-> sigWarn]
        ELSE IF infoEOF THEN Fail("failed to read sector info")
        ELSE IF Len(t) < 256 THEN Fail("track too small for sector data")
        ELSE IF h.sectorSize > 7 THEN Fail("invalid sector size")
        ELSE IF secLen > 16384 THEN Fail("calculated sector size too large")
        ELSE IF Len(t) - 256 < secLen THEN Fail("not enough data")
        ELSE [status |-> "ok",
              track |-> [header |-> h, sectors |-> secs.sectors],
              warnings |-> secs.warnings]

\* one turn of the position loop of parseStandardDSK; every turn moves
\* currentOffset on by trackSize, so position i starts at
\* HeaderSize + i * trackSize
StdBlockAt(data, trackSize, sides, acc, i) ==
    LET currentOffset == HeaderSize + i * trackSize
        tr == StdTrack(Slice(data, currentOffset, currentOffset + trackSize), i, sides)
    IN  IF acc.status # "ok" THEN acc
        ELSE IF Len(data) < currentOffset + trackSize
        THEN ParseError("file unexpected EOF")
        ELSE IF tr.status # "ok" THEN ParseError(tr.status)
        ELSE [status    |-> "ok",
              format    |-> acc.format,
              header    |-> acc.header,
              trackSize |-> acc.trackSize,
              tracks    |-> Append(acc.tracks, tr.track),
              warnings  |-> acc.warnings \o tr.warnings]

StdBlocks(data, h, trackSize, i, currentOffset, acc) ==
    LET Step(st, j) == StdBlockAt(data, trackSize, h.sides, st, j)
    IN  Fold(Step, acc, i, h.tracks * h.sides - 1)

\* parseStandardDSK, were the limit of the track count one higher
parseStandardDSKOneMore(data) ==
    LET h                 == ReadDiskHeader(data)
        StandardTrackSize == LE16(data, 32)
    IN  IF h.tracks = 0 \/ h.tracks > 86 THEN ParseError("invalid number of tracks")
        ELSE IF h.sides = 0 \/ h.sides > 2 THEN ParseError("invalid number of sides")
        ELSE IF StandardTrackSize < 256 THEN ParseError("invalid track size")
        ELSE IF Len(data) < HeaderSize + h.tracks * h.sides * StandardTrackSize
        THEN ParseError("file too small")
        ELSE StdBlocks(data, h, StandardTrackSize, 0, HeaderSize,
                 [status |-> "ok", format |-> "standard", header |-> h,
                  trackSize |-> StandardTrackSize, tracks |-> <<>>,
                  warnings |-> <<>>])

parseStandardDSK(data) ==
    LET h                 == ReadDiskHeader(data)
        StandardTrackSize == LE16(data, 32)
    IN  IF h.tracks = 0 \/ h.tracks > 85 THEN ParseError("invalid number of tracks")
        ELSE IF h.sides = 0 \/ h.sides > 2 THEN ParseError("invalid number of sides")
        ELSE IF StandardTrackSize < 256 THEN ParseError("invalid track size")
        ELSE IF Len(data) < HeaderSize + h.tracks * h.sides * StandardTrackSize
        THEN ParseError("file too small")
        ELSE StdBlocks(data, h, StandardTrackSize, 0, HeaderSize,
                 [status |-> "ok", format |-> "standard", header |-> h,
                  trackSize |-> StandardTrackSize, tracks |-> <<>>,
                  warnings |-> <<>>])

\* ParseDSK, were only the first seven bytes of a tag compared
ParseDSKShortTag(data) ==
    IF Len(data) < HeaderSize THEN ParseError("file too small to contain header")
    ELSE IF HasPrefix(Slice(data, 0, 22), SubSeq(TagExtended, 1, 7))
    THEN parseExtendedDSK(data)
    ELSE IF HasPrefix(Slice(data, 0, 22), SubSeq(TagStandard, 1, 7))
    THEN parseStandardDSK(data)
    ELSE ParseError("invalid file signature")

\* ParseDSK on the bytes of the file
ParseDSK(data) ==
    IF Len(data) < HeaderSize THEN ParseError("file too small to contain header")
    ELSE IF HasPrefix(Slice(data, 0, 22), TagExtended) THEN parseExtendedDSK(data)
    ELSE IF HasPrefix(Slice(data, 0, 22), TagStandard) THEN parseStandardDSK(data)
    ELSE ParseError("invalid file signature")

(***************************************************************************)
(* The directory tree.  A metadata file is a JSON object: a function from   *)
(* its keys to values [k, v], k the JSON type and v a sequence (the number, *)
(* the bytes of the string, the numbers of the array).                      *)
(***************************************************************************)
JNum(n) == [k |-> "num", v |-> <<n>>]
JStr(s) == [k |-> "str", v |-> s]
JArr(a) == [k |-> "arr", v |-> a]
JBool(b) == [k |-> "bool", v |-> <<IF b THEN 1 ELSE 0>>]

EmptyMap == <<>>
Put(f, key, val) == (key :> val) @@ f
Remove(f, key) == [x \in (DOMAIN f) \ {key} |-> f[x]]
Has(f, key) == key \in DOMAIN f

\* a directory name: track-NN (side = -1) or track-NN-side-S
DirPos(i) == [t |-> i, s |-> -1]
DirSide(t, s) == [t |-> t, s |-> s]

\* a payload file name: sector-<num>.<ext>
PayloadName(num, ext) == [num |-> num, ext |-> ext]

NoDir == [exists |-> FALSE, hasMeta |-> FALSE, diskMeta |-> EmptyMap,
          tracks |-> EmptyMap]

EmptyTrackDir == [hasMeta |-> FALSE, meta |-> EmptyMap, sectorMeta |-> EmptyMap,
                  payload |-> EmptyMap]

\* bytes.Trim(s, "\x00")
RECURSIVE TrimNul(_)
TrimNul(s) ==
    IF Len(s) = 0 THEN s
    ELSE IF s[1] = 0 THEN TrimNul(Tail(s))
    ELSE IF s[Len(s)] = 0 THEN TrimNul(SubSeq(s, 1, Len(s) - 1))
    ELSE s

(***************************************************************************)
(* DSK.Unpack.                                                              *)
(***************************************************************************)
\* trackMap: the last track of d whose stored numbers give position i, 0 if
\* none
TrackAt(d, i) ==
    LET hits == {n \in 1..Len(d.tracks) :
                   d.tracks[n].header.trackNum * d.header.sides
                     + d.tracks[n].header.sideNum = i}
    IN  IF hits = {} THEN 0 ELSE CHOOSE n \in hits : \A m \in hits : m <= n

TrackDirName(i, sides) ==
    IF sides > 1 THEN DirSide(i \div sides, i % sides) ELSE DirPos(i)

\* json.Marshal writes a []uint8 as a base64 string and a uint8 as a number
TrackMetaOf(h, formatted) ==
    [unused       |-> JStr(h.unused),
     track_number |-> JNum(h.trackNum),
     side_number  |-> JNum(h.sideNum),
     unused2      |-> JStr(h.unused2),
     sector_size  |-> JNum(h.sectorSize),
     sector_count |-> JNum(h.sectorCount),
     gap3_length  |-> JNum(h.gap3),
     filler_byte  |-> JNum(h.filler),
     formatted    |-> JBool(formatted)]

SectorMetaOf(info) ==
    [cylinder    |-> JNum(info.C),
     head        |-> JNum(info.H),
     sector_id   |-> JNum(info.R),
     sector_size |-> JNum(info.N),
     fdc_status1 |-> JNum(info.st1),
     fdc_status2 |-> JNum(info.st2),
     data_length |-> JNum(info.len)]

\* the sector loop of Unpack over one track directory: each sector writes
\* sector-R.<ext> and sector-R.meta, over a file of that name if there is one
RECURSIVE UnpackSectors(_, _, _, _)
UnpackSectors(dir, sectors, s, format) ==
    IF s > Len(sectors) THEN dir
    ELSE
      LET sec == sectors[s]
          num == sec.info.R
      IN  UnpackSectors(
              [dir EXCEPT
                 !.payload = Put(@, PayloadName(num, ExtOf(format)),
                                 FormatWrite(format, sec.data)),
                 !.sectorMeta = Put(@, num, SectorMetaOf(sec.info))],
              sectors, s + 1, format)

\* the position loop of Unpack
RECURSIVE UnpackTracks(_, _, _, _)
UnpackTracks(tree, d, i, format) ==
    IF i >= d.header.tracks * d.header.sides THEN tree
    ELSE
      LET n    == TrackAt(d, i)
          name == TrackDirName(i, d.header.sides)
          old  == IF Has(tree.tracks, name) THEN tree.tracks[name] ELSE EmptyTrackDir
          meta == IF n # 0 THEN TrackMetaOf(d.tracks[n].header, TRUE)
                  ELSE TrackMetaOf(EmptyTrackHeader(i \div d.header.sides,
                                                    i % d.header.sides), FALSE)
          dir0 == [old EXCEPT !.hasMeta = TRUE, !.meta = meta]
          dir1 == IF n # 0 THEN UnpackSectors(dir0, d.tracks[n].sectors, 1, format)
                  ELSE dir0
      IN  UnpackTracks([tree EXCEPT !.tracks = Put(@, name, dir1)], d, i + 1, format)

DiskMetaOf(d) ==
    LET base == [creator |-> JStr(TrimNul(d.header.creator)),
                 tracks  |-> JNum(d.header.tracks),
                 sides   |-> JNum(d.header.sides),
                 format  |-> JStr(IF d.format = "standard" THEN "standard"
                                  ELSE "extended")]
    IN  IF d.format = "standard"
        THEN Put(base, "track_size", JNum(d.trackSize))
        ELSE Put(base, "track_size_table", JArr(d.header.table))

Unpack(tree, d, format) ==
    UnpackTracks([tree EXCEPT !.exists = TRUE, !.hasMeta = TRUE,
                              !.diskMeta = DiskMetaOf(d)],
                 d, 0, format)

(***************************************************************************)
(* Pack.                                                                    *)
(***************************************************************************)
\* "EXTENDED CPC DSK File\r\nDisk-Info\r\n" (34 bytes)
SigExtended ==
    <<69, 88, 84, 69, 78, 68, 69, 68, 32, 67, 80, 67, 32, 68, 83, 75, 32,
      70, 105, 108, 101, 13, 10, 68, 105, 115, 107, 45, 73, 110, 102, 111, 13, 10>>

\* "MV - CPCEMU Disk-File" padded with zeros to 34 bytes
SigStandard ==
    <<77, 86, 32, 45, 32, 67, 80, 67, 69, 77, 85, 32, 68, 105, 115, 107, 45,
      70, 105, 108, 101>> \o Rep(0, 13)

\* copy(dst[:n], src) into a zeroed array of n bytes
CopyInto(n, src) == [k \in 1..n |-> IF k <= Len(src) THEN src[k] ELSE 0]

\* v, _ := meta[key].(float64); uint8(v)
MetaU8(meta, key) ==
    IF Has(meta, key) /\ meta[key].k = "num" THEN meta[key].v[1] % 256 ELSE 0

\* v, _ := meta[key].(float64); uint16(v)
MetaU16(meta, key) ==
    IF Has(meta, key) /\ meta[key].k = "num" THEN meta[key].v[1] % 65536 ELSE 0

\* arr, ok := meta[key].([]interface{}): the first n values, the rest 0
MetaArr(meta, key, n) ==
    IF Has(meta, key) /\ meta[key].k = "arr"
    THEN [j \in 1..n |-> IF j <= Len(meta[key].v) THEN meta[key].v[j] % 256 ELSE 0]
    ELSE Rep(0, n)

IsNum(meta, key) == Has(meta, key) /\ meta[key].k = "num"

\* the decimal digits of n, as fmt.Sprintf("%d", n) writes them
RECURSIVE DecStr(_)
DecStr(n) ==
    IF n < 10 THEN <<48 + n>> ELSE Append(DecStr(n \div 10), 48 + (n % 10))

\* a < b for byte strings, as Go compares strings
RECURSIVE LexLess(_, _)
LexLess(a, b) ==
    IF Len(b) = 0 THEN FALSE
    ELSE IF Len(a) = 0 THEN TRUE
    ELSE IF a[1] # b[1] THEN a[1] < b[1]
    ELSE LexLess(Tail(a), Tail(b))

\* the part of the name "sector-<num>.meta" after "sector-"
SectorMetaName(num) == DecStr(num) \o <<46, 109, 101, 116, 97>>

\* os.ReadDir returns the entries sorted by file name: the numbers of the
\* sector-<num>.meta files in that order
RECURSIVE SortedByName(_)
SortedByName(nums) ==
    IF nums = {} THEN <<>>
    ELSE LET first == CHOOSE n \in nums :
                         \A m \in nums \ {n} :
                            LexLess(SectorMetaName(n), SectorMetaName(m))
         IN  <<first>> \o SortedByName(nums \ {first})

ReadDirSectorMetas(dir) == SortedByName(DOMAIN dir.sectorMeta)

\* the order in which DetectFormatFromFile looks for the payload files
FormatOrder == <<"binary", "hex", "quoted", "asciihex">>

\* DetectFormatFromFile accepting the first payload file it finds, however
\* many there are
DetectFirstFormat(dir, num) ==
    LET Exists(f) == Has(dir.payload, PayloadName(num, ExtOf(f)))
        existingFiles == SelectSeq(FormatOrder, Exists)
    IN  IF Len(existingFiles) = 0 THEN [ok |-> FALSE, format |-> ""]
        ELSE [ok |-> TRUE, format |-> existingFiles[1]]

\* DetectFormatFromFile(trackDir, sectorNum): the format of the one payload
\* file that exists, an error with none or with several
DetectFormatFromFile(dir, num) ==
    LET Exists(f) == Has(dir.payload, PayloadName(num, ExtOf(f)))
        existingFiles == SelectSeq(FormatOrder, Exists)
    IN  IF Len(existingFiles) = 0 THEN [ok |-> FALSE, format |-> ""]
        ELSE IF Len(existingFiles) > 1 THEN [ok |-> FALSE, format |-> ""]
        ELSE [ok |-> TRUE, format |-> existingFiles[1]]

SectorInfoOf(meta) ==
    [C   |-> MetaU8(meta, "cylinder"),
     H   |-> MetaU8(meta, "head"),
     R   |-> MetaU8(meta, "sector_id"),
     N   |-> MetaU8(meta, "sector_size"),
     st1 |-> MetaU8(meta, "fdc_status1"),
     st2 |-> MetaU8(meta, "fdc_status2"),
     len |-> MetaU16(meta, "data_length")]

\* binary.Write of a SectorInfo: 8 bytes, the length little-endian
SectorInfoBytes(info) ==
    <<info.C, info.H, info.R, info.N, info.st1, info.st2,
      info.len % 256, info.len \div 256>>

\* binary.Write of a TrackHeader: 24 bytes
TrackHeaderBytes(h) ==
    h.sig \o h.unused \o <<h.trackNum, h.sideNum>> \o h.unused2
      \o <<h.sectorSize, h.sectorCount, h.gap3, h.filler>>

TrackHeaderOf(meta) ==
    [sig         |-> TagTrackInfoCRLF \o <<0>>,
     unused      |-> MetaArr(meta, "unused", 3),
     trackNum    |-> MetaU8(meta, "track_number"),
     sideNum     |-> MetaU8(meta, "side_number"),
     unused2     |-> MetaArr(meta, "unused2", 2),
     sectorSize  |-> MetaU8(meta, "sector_size"),
     sectorCount |-> MetaU8(meta, "sector_count"),
     gap3        |-> MetaU8(meta, "gap3_length"),
     filler      |-> MetaU8(meta, "filler_byte")]

\* the loop over the sector-<num>.meta entries of a track directory: the
\* descriptors in entry order and the payloads by sector number
RECURSIVE PackReadSectors(_, _, _, _)
PackReadSectors(dir, names, e, acc) ==
    IF e > Len(names) THEN acc
    ELSE
      LET num  == names[e]
          info == SectorInfoOf(dir.sectorMeta[num])
          det  == DetectFormatFromFile(dir, num)
          rd   == FormatRead(det.format, dir.payload[PayloadName(num, ExtOf(det.format))])
      IN  IF ~det.ok THEN [acc EXCEPT !.err = "failed to detect format"]
          ELSE IF ~rd.ok THEN [acc EXCEPT !.err = "failed to read sector data"]
          ELSE PackReadSectors(dir, names, e + 1,
                   [acc EXCEPT !.infos = Append(@, info),
                               !.formats = Append(@, det.format),
                               !.dataMap = Put(@, num, rd.bytes)])

RECURSIVE ConcatInfos(_)
ConcatInfos(infos) ==
    IF Len(infos) = 0 THEN <<>>
    ELSE SectorInfoBytes(infos[1]) \o ConcatInfos(Tail(infos))

\* sectorDataMap[sectorInfo.R] of each descriptor, nothing when the map has
\* no such key
RECURSIVE ConcatData(_, _)
ConcatData(infos, dataMap) ==
    IF Len(infos) = 0 THEN <<>>
    ELSE (IF Has(dataMap, infos[1].R) THEN dataMap[infos[1].R] ELSE <<>>)
           \o ConcatData(Tail(infos), dataMap)

RECURSIVE TableSum(_, _)
TableSum(table, n) ==
    IF n = 0 THEN 0 ELSE TableSum(table, n - 1) + table[n] * 256

PackOutcome(err, created, bytes, blocks) ==
    [err |-> err, created |-> created, bytes |-> bytes, blocks |-> blocks]

\* the directory Pack uses for position i: track-NN first, then with more
\* than one side track-NN-side-S
PackTrackDir(tree, i, sides) ==
    IF ~Has(tree.tracks, DirPos(i)) /\ sides > 1
    THEN DirSide(i \div sides, i % sides)
    ELSE DirPos(i)

\* what Pack writes for a position whose directory and table entry it
\* accepted: the track header, then, the sector files read without error,
\* the descriptors, the payloads sectorDataMap[R] and the filler up to the
\* size the table gives, counted from the start the table gives
PackWriteTrack(out, table, i, th, secs) ==
    LET bytes1  == out.bytes \o TrackHeaderBytes(th)
        bytes2  == bytes1 \o ConcatInfos(secs.infos)
                     \o ConcatData(secs.infos, secs.dataMap)
        written == Len(bytes2) - (HeaderSize + TableSum(table, i))
        padding == Rep(th.filler, Max(0, table[i + 1] * 256 - written))
        block   == [pos |-> i, start |-> Len(out.bytes), header |-> th,
                    infos |-> secs.infos, formats |-> secs.formats,
                    dataMap |-> secs.dataMap,
                    payloads |-> [k \in 1..Len(secs.infos) |->
                                    ConcatData(<<secs.infos[k]>>, secs.dataMap)]]
    IN  IF secs.err # ""
        THEN PackOutcome(secs.err, TRUE, bytes1, out.blocks)
        ELSE PackOutcome("", TRUE, bytes2 \o padding, Append(out.blocks, block))

PackTrack(out, table, i, dir) ==
    PackWriteTrack(out, table, i, TrackHeaderOf(dir.meta),
        PackReadSectors(dir, ReadDirSectorMetas(dir), 1,
            [err |-> "", infos |-> <<>>, formats |-> <<>>, dataMap |-> EmptyMap]))

\* the position loop skipping every position without a directory, whatever
\* the table says
PackStepSkipMissing(tree, table, sides, out, i) ==
    LET trackSize == table[i + 1] * 256
        name      == PackTrackDir(tree, i, sides)
    IN  IF out.err # "" THEN out
        ELSE IF ~Has(tree.tracks, name) THEN out
        ELSE IF trackSize = 0 THEN out
        ELSE IF ~tree.tracks[name].hasMeta
        THEN PackOutcome("failed to read track metadata", TRUE, out.bytes, out.blocks)
        ELSE PackTrack(out, table, i, tree.tracks[name])

\* one turn of the position loop of Pack; out.bytes is the output file so
\* far and out.blocks records what was written for each track block
PackStepAt(tree, table, sides, out, i) ==
    LET trackSize == table[i + 1] * 256
        name      == PackTrackDir(tree, i, sides)
    IN  IF out.err # "" THEN out
        ELSE IF ~Has(tree.tracks, name)
        THEN IF trackSize = 0 THEN out
             ELSE PackOutcome("track should exist but directory not found",
                              TRUE, out.bytes, out.blocks)
        ELSE IF trackSize = 0 THEN out
        ELSE IF ~tree.tracks[name].hasMeta
        THEN PackOutcome("failed to read track metadata", TRUE, out.bytes, out.blocks)
        ELSE PackTrack(out, table, i, tree.tracks[name])

PackTracks(tree, table, sides, total, out) ==
    LET Step(st, j) == PackStepAt(tree, table, sides, st, j)
    IN  Fold(Step, out, 0, total - 1)

\* the values Pack takes from disk-image.meta once it has accepted them
PackTracksField(tree) == tree.diskMeta["tracks"].v[1] % 256
PackSidesField(tree) == tree.diskMeta["sides"].v[1] % 256
PackTable(tree) ==
    LET values == tree.diskMeta["track_size_table"].v
    IN  CopyInto(TrackSizeTableLen, [k \in 1..Len(values) |-> values[k] % 256])

\* the checks of Pack before os.Create: the error returned, "" when none
PackDiskError(tree) ==
    LET m == tree.diskMeta
    IN  IF ~tree.exists \/ ~tree.hasMeta THEN "failed to read disk metadata"
        ELSE IF ~(Has(m, "creator") /\ m["creator"].k = "str")
        THEN "invalid creator in disk metadata"
        ELSE IF ~IsNum(m, "tracks") THEN "invalid tracks in disk metadata"
        ELSE IF ~IsNum(m, "sides") THEN "invalid sides in disk metadata"
        ELSE IF ~Has(m, "track_size_table")
        THEN "missing track_size_table in disk metadata"
        ELSE IF m["track_size_table"].k # "arr"
        THEN "invalid track_size_table format in disk metadata"
        ELSE IF Len(m["track_size_table"].v) > TrackSizeTableLen
        THEN "track_size_table too large"
        ELSE ""

\* signature, creator, tracks, sides and two bytes of padding: 52 bytes
PackHead(tree) ==
    LET m   == tree.diskMeta
        sig == IF Has(m, "format") /\ m["format"].k = "str"
                  /\ m["format"].v = "standard"
               THEN SigStandard ELSE SigExtended
    IN  sig \o CopyInto(14, m["creator"].v)
          \o <<PackTracksField(tree), PackSidesField(tree), 0, 0>>

\* the output file when the position loop starts: the 256-byte header
PackStart(tree) ==
    LET total == PackTracksField(tree) * PackSidesField(tree)
    IN  PackOutcome("", TRUE,
            PackHead(tree) \o SubSeq(PackTable(tree), 1, total)
               \o Rep(0, HeaderSize - (52 + total)),
            <<>>)

Pack(tree) ==
    LET total == PackTracksField(tree) * PackSidesField(tree)
    IN  IF PackDiskError(tree) # ""
        THEN PackOutcome(PackDiskError(tree), FALSE, <<>>, <<>>)
        ELSE IF total > TrackSizeTableLen
        THEN PackOutcome("track table size exceeds maximum", TRUE, PackHead(tree), <<>>)
        ELSE PackTracks(tree, PackTable(tree), PackSidesField(tree), total,
                        PackStart(tree))

(***************************************************************************)
(* The containers the model starts from, laid out as types.go documents     *)
(* them: a 256-byte disk header, then one block per track position.         *)
(***************************************************************************)
\* "Track-Info\r\n" and a NUL: the 13-byte track signature
TrackSignature == TagTrackInfoCRLF \o <<0>>

\* a sector of a generated track: its ID, size code, explicit length, bytes
Sec(R, N, len, data) == [R |-> R, N |-> N, len |-> len, data |-> data]

RECURSIVE SecInfoBytes(_, _, _, _)
SecInfoBytes(secs, C, H, width) ==
    IF Len(secs) = 0 THEN <<>>
    ELSE LET x == secs[1]
         IN  (IF width = 8
              THEN <<C, H, x.R, x.N, 0, 0, x.len % 256, x.len \div 256>>
              ELSE <<C, H, x.R, x.N, 0, 0>>)
               \o SecInfoBytes(Tail(secs), C, H, width)

RECURSIVE SecDataBytes(_)
SecDataBytes(secs) ==
    IF Len(secs) = 0 THEN <<>> ELSE secs[1].data \o SecDataBytes(Tail(secs))

\* bytes cut or filled to exactly size
FitTo(bytes, size, filler) ==
    [k \in 1..size |-> IF k <= Len(bytes) THEN bytes[k] ELSE filler]

\* an Extended track block: header, 8-byte descriptors, payloads back to back
MkExtBlock(size, trackNum, sideNum, N, secs, filler) ==
    FitTo(TrackSignature \o <<0, 0, 0, trackNum, sideNum, 0, 0,
                              N, Len(secs), 78, filler>>
            \o SecInfoBytes(secs, trackNum, sideNum, 8) \o SecDataBytes(secs),
          size, filler)

\* a Standard track block: header, 6-byte descriptors, payloads from 0x100
MkStdBlock(size, trackNum, sideNum, N, secs, filler) ==
    FitTo(FitTo(TrackSignature \o <<0, 0, 0, trackNum, sideNum, 0, 0,
                                    N, Len(secs), 78, filler>>
                  \o SecInfoBytes(secs, trackNum, sideNum, 6), 256, 0)
            \o SecDataBytes(secs),
          size, filler)

\* "Demo" in the 14-byte creator field
Creator == <<68, 101, 109, 111>> \o Rep(0, 10)

MkDiskHeader(sig, tracks, sides, table) ==
    sig \o Creator \o <<tracks, sides, 0, 0>> \o CopyInto(TrackSizeTableLen, table)

\* the Standard header keeps its track size where parseStandardDSK reads it,
\* at bytes 32 and 33
MkStdSig(trackSize) ==
    [k \in 1..34 |-> IF k = 33 THEN trackSize % 256
                     ELSE IF k = 34 THEN trackSize \div 256
                     ELSE SigStandard[k]]

RECURSIVE ConcatAll(_)
ConcatAll(seqs) == IF Len(seqs) = 0 THEN <<>> ELSE seqs[1] \o ConcatAll(Tail(seqs))

\* payload bytes every codec carries unchanged, and bytes with a run that a
\* byte written in hex follows
CleanData(n, b) == [j \in 1..n |-> b + (j % 2)]
RunData == <<0, 0, 0, 0, 1>>

\* the track kinds of a generated Extended container; "none" is a position
\* whose table entry is 0
ExtKindsFirst ==
    {"none", "one", "swapped", "twins", "ten", "long", "moved", "empty", "run"}
ExtKindsRest == {"none", "one", "long"}

ExtSecs(kind) ==
    CASE kind = "one"     -> <<Sec(1, 0, 2, CleanData(2, 65))>>
      [] kind = "swapped" -> <<Sec(2, 0, 2, CleanData(2, 67)), Sec(1, 0, 2, CleanData(2, 69))>>
      [] kind = "twins"   -> <<Sec(1, 0, 2, CleanData(2, 71)), Sec(1, 0, 2, CleanData(2, 73))>>
      [] kind = "ten"     -> <<Sec(2, 0, 2, CleanData(2, 75)), Sec(10, 0, 2, CleanData(2, 77))>>
      [] kind = "long"    -> <<Sec(1, 0, 0, CleanData(128, 79)), Sec(2, 0, 0, CleanData(128, 81))>>
      [] kind = "moved"   -> <<Sec(1, 0, 2, CleanData(2, 83))>>
      [] kind = "run"     -> <<Sec(1, 0, 5, RunData)>>
      [] OTHER            -> <<>>

\* the block of position i of an Extended container with the given sides
ExtBlockOf(kind, i, sides) ==
    IF kind = "none" THEN <<>>
    ELSE MkExtBlock(256, (i \div sides) + (IF kind = "moved" THEN 1 ELSE 0),
                    i % sides, 0, ExtSecs(kind), 229)

Geometries ==
    {g \in (1..MaxBlocks) \X (1..2) : g[1] * g[2] <= MaxBlocks}

KindChoices(first, rest, n) ==
    {ks \in [1..n -> first \cup rest] :
        ks[1] \in first /\ \A k \in 2..n : ks[k] \in rest}

MkExtImage(g, kinds) ==
    MkDiskHeader(SigExtended, g[1], g[2],
                 [k \in 1..Len(kinds) |-> IF kinds[k] = "none" THEN 0 ELSE 1])
      \o ConcatAll([k \in 1..Len(kinds) |-> ExtBlockOf(kinds[k], k - 1, g[2])])

ExtImages ==
    UNION {{MkExtImage(g, ks) :
              ks \in KindChoices(ExtKindsFirst, ExtKindsRest, g[1] * g[2])} :
           g \in Geometries}

\* the track kinds of a generated Standard container, whose blocks all have
\* StdBlockSize bytes; "blank" is a block of one repeated byte
StdBlockSize == 2 * HeaderSize
StdKindsFirst == {"one", "pair", "blank", "empty", "big"}
StdKindsRest == {"one", "blank"}

StdSecs(kind) ==
    CASE kind = "one"  -> <<Sec(1, 0, 0, CleanData(128, 65))>>
      [] kind = "pair" -> <<Sec(2, 0, 0, CleanData(128, 67)), Sec(1, 0, 0, CleanData(128, 69))>>
      [] kind = "big"  -> <<Sec(1, 1, 0, CleanData(256, 71)), Sec(2, 1, 0, CleanData(256, 73))>>
      [] OTHER         -> <<>>

StdBlockOf(kind, i, sides) ==
    IF kind = "blank" THEN Rep(229, StdBlockSize)
    ELSE MkStdBlock(StdBlockSize, i \div sides, i % sides,
                    IF kind = "big" THEN 1 ELSE 0, StdSecs(kind), 229)

MkStdImage(g, kinds) ==
    MkDiskHeader(MkStdSig(StdBlockSize), g[1], g[2], <<>>)
      \o ConcatAll([k \in 1..Len(kinds) |-> StdBlockOf(kinds[k], k - 1, g[2])])

StdImages ==
    UNION {{MkStdImage(g, ks) :
              ks \in KindChoices(StdKindsFirst, StdKindsRest, g[1] * g[2])} :
           g \in Geometries}

Images == ExtImages \cup StdImages

(***************************************************************************)
(* The commands: unpack <image> --data-format F (ParseDSK, then Unpack),    *)
(* pack <dir> <out>, and ParseDSK of the file pack wrote.                   *)
(***************************************************************************)
NotParsed == ParseError("not parsed")
NotPacked == PackOutcome("not run", FALSE, <<>>, <<>>)

\* what an edit of the tree changed: the kind of change, the directory, the
\* sector number and the metadata key it touched
Edited(kind, dir, num, key) == [kind |-> kind, dir |-> dir, num |-> num, key |-> key]
NoEdit == Edited("none", DirPos(-1), -1, "")

CodecIdle ==
    /\ cdata = <<>>
    /\ cenc = <<>>
    /\ cres = [ok |-> FALSE, bytes |-> <<>>]
    /\ cpc = "idle"

DiskIdle ==
    /\ image = <<>>
    /\ dataFormat = "binary"
    /\ dsk = NotParsed
    /\ fs = NoDir
    /\ packed = NotPacked
    /\ dsk2 = NotParsed
    /\ edit = NoEdit
    /\ pc = "idle"

\* the UnpackArgs of a call that has not returned
NotRun == [done |-> FALSE, err |-> "", Filename |-> "", OutputDir |-> "",
           DataFormat |-> ""]

ArgsIdle ==
    /\ args = <<>>
    /\ unpackArgs = NotRun

InitWith(images) ==
    /\ CodecIdle
    /\ ArgsIdle
    /\ image \in images
    /\ dataFormat \in Formats
    /\ dsk = NotParsed
    /\ fs = NoDir
    /\ packed = NotPacked
    /\ dsk2 = NotParsed
    /\ edit = NoEdit
    /\ pc = "start"

Init == InitWith(Images)

\* main, case "unpack": ParseDSK; a parse error ends the command
ParseStep ==
    /\ pc = "start"
    /\ dsk' = ParseDSK(image)
    /\ pc' = "parsed"
    /\ UNCHANGED <<image, dataFormat, fs, packed, dsk2, edit>>
    /\ UNCHANGED codecVars
    /\ UNCHANGED argVars

\* main, case "unpack": dsk.Unpack
UnpackStep ==
    /\ pc = "parsed"
    /\ dsk.status = "ok"
    /\ fs' = Unpack(fs, dsk, dataFormat)
    /\ pc' = "unpacked"
    /\ UNCHANGED <<image, dataFormat, dsk, packed, dsk2, edit>>
    /\ UNCHANGED codecVars
    /\ UNCHANGED argVars

\* main, case "pack"
PackStep ==
    /\ pc \in {"unpacked", "edited"}
    /\ packed' = Pack(fs)
    /\ pc' = "packed"
    /\ UNCHANGED <<image, dataFormat, dsk, fs, dsk2, edit>>
    /\ UNCHANGED codecVars
    /\ UNCHANGED argVars

\* ParseDSK of the output file, when Pack left one
ReparseStep ==
    /\ pc = "packed"
    /\ packed.created
    /\ dsk2' = ParseDSK(packed.bytes)
    /\ pc' = "done"
    /\ UNCHANGED <<image, dataFormat, dsk, fs, packed, edit>>
    /\ UNCHANGED codecVars
    /\ UNCHANGED argVars

Next == ParseStep \/ UnpackStep \/ PackStep \/ ReparseStep

Spec == Init /\ [][Next]_vars

(***************************************************************************)
(* Pack on a directory that was changed after Unpack wrote it: Pack reads   *)
(* whatever unpackedDir holds.  One change is made, then pack runs.         *)
(***************************************************************************)
DiskFields == {"creator", "tracks", "sides", "track_size_table"}
TrackFields == {"track_number", "side_number", "sector_size", "sector_count",
                "gap3_length", "filler_byte"}
SectorFields == {"cylinder", "head", "sector_id", "sector_size", "fdc_status1",
                 "fdc_status2", "data_length"}

\* a JSON value of another type than v
Retyped(v) == IF v.k = "str" THEN JNum(1) ELSE JStr(<<49>>)

\* a metadata map with the key removed, or holding a value of another type
Spoiled(meta, key, how) ==
    IF how = "remove" THEN Remove(meta, key) ELSE Put(meta, key, Retyped(meta[key]))

SetTrackDir(tree, name, dir) == [tree EXCEPT !.tracks = Put(@, name, dir)]

\* payloads written into a sector file: two bytes, and more than a block
EditData == {CleanData(2, 97), CleanData(300, 97)}

Changed(tree, e) ==
    /\ pc = "unpacked"
    /\ fs' = tree
    /\ edit' = e
    /\ pc' = "edited"
    /\ UNCHANGED <<image, dataFormat, dsk, packed, dsk2>>
    /\ UNCHANGED codecVars
    /\ UNCHANGED argVars

RemoveTrackDir ==
    \E name \in DOMAIN fs.tracks :
        Changed([fs EXCEPT !.tracks = Remove(@, name)],
                Edited("RemoveTrackDir", name, -1, ""))

\* track-NN-side-S renamed to track-PP, the name Pack tries first
RenameTrackDir ==
    \E name \in DOMAIN fs.tracks :
        /\ name.s >= 0
        /\ Changed([fs EXCEPT !.tracks =
                       Put(Remove(@, name),
                           DirPos(name.t * dsk.header.sides + name.s), @[name])],
                   Edited("RenameTrackDir", name, -1, ""))

\* the sector files of one track directory copied into another
FillTrackDir ==
    \E name \in DOMAIN fs.tracks, from \in DOMAIN fs.tracks :
        /\ DOMAIN fs.tracks[name].sectorMeta = {}
        /\ DOMAIN fs.tracks[from].sectorMeta # {}
        /\ Changed(SetTrackDir(fs, name,
                       [fs.tracks[name] EXCEPT
                          !.sectorMeta = fs.tracks[from].sectorMeta,
                          !.payload = fs.tracks[from].payload]),
                   Edited("FillTrackDir", name, -1, ""))

RemoveDiskMeta ==
    /\ fs.hasMeta
    /\ Changed([fs EXCEPT !.hasMeta = FALSE], Edited("RemoveDiskMeta", DirPos(-1), -1, ""))

SpoilDiskField ==
    \E key \in DiskFields \cap DOMAIN fs.diskMeta, how \in {"remove", "retype"} :
        Changed([fs EXCEPT !.diskMeta = Spoiled(@, key, how)],
                Edited("SpoilDiskField", DirPos(-1), -1, key))

RemoveTrackMeta ==
    \E name \in DOMAIN fs.tracks :
        Changed(SetTrackDir(fs, name, [fs.tracks[name] EXCEPT !.hasMeta = FALSE]),
                Edited("RemoveTrackMeta", name, -1, ""))

SpoilTrackField ==
    \E name \in DOMAIN fs.tracks, key \in TrackFields, how \in {"remove", "retype"} :
        Changed(SetTrackDir(fs, name,
                    [fs.tracks[name] EXCEPT !.meta = Spoiled(@, key, how)]),
                Edited("SpoilTrackField", name, -1, key))

SpoilSectorField ==
    \E name \in DOMAIN fs.tracks, key \in SectorFields, how \in {"remove", "retype"} :
        \E num \in DOMAIN fs.tracks[name].sectorMeta :
            Changed(SetTrackDir(fs, name,
                        [fs.tracks[name] EXCEPT
                           !.sectorMeta = Put(@, num, Spoiled(@[num], key, how))]),
                    Edited("SpoilSectorField", name, num, key))

RemovePayload ==
    \E name \in DOMAIN fs.tracks :
        \E file \in DOMAIN fs.tracks[name].payload :
            Changed(SetTrackDir(fs, name,
                        [fs.tracks[name] EXCEPT !.payload = Remove(@, file)]),
                    Edited("RemovePayload", name, file.num, file.ext))

\* a second payload file for a sector, under another extension
AddPayload ==
    \E name \in DOMAIN fs.tracks, f \in Formats :
        \E num \in DOMAIN fs.tracks[name].sectorMeta :
            /\ ~Has(fs.tracks[name].payload, PayloadName(num, ExtOf(f)))
            /\ Changed(SetTrackDir(fs, name,
                           [fs.tracks[name] EXCEPT
                              !.payload = Put(@, PayloadName(num, ExtOf(f)),
                                              FormatWrite(f, CleanData(2, 97)))]),
                       Edited("AddPayload", name, num, ExtOf(f)))

\* the payload files of a sector replaced by one file in format f
ConvertPayload ==
    \E name \in DOMAIN fs.tracks, f \in Formats, data \in EditData :
        \E num \in DOMAIN fs.tracks[name].sectorMeta :
            Changed(SetTrackDir(fs, name,
                        [fs.tracks[name] EXCEPT
                           !.payload =
                              Put([file \in {x \in DOMAIN @ : x.num # num} |-> @[file]],
                                  PayloadName(num, ExtOf(f)), FormatWrite(f, data))]),
                    Edited("ConvertPayload", name, num, ExtOf(f)))

\* the containers whose trees are changed: one or two sectors in the first
\* track, and later positions with a track or with a table entry of 0
PackImages ==
    UNION {{MkExtImage(g, ks) :
              ks \in KindChoices({"one", "swapped"}, {"none", "one"}, g[1] * g[2])} :
           g \in Geometries}

InitPack == InitWith(PackImages)

NextPack ==
    \/ ParseStep
    \/ UnpackStep
    \/ RemoveTrackDir
    \/ RenameTrackDir
    \/ FillTrackDir
    \/ RemoveDiskMeta
    \/ SpoilDiskField
    \/ RemoveTrackMeta
    \/ SpoilTrackField
    \/ SpoilSectorField
    \/ RemovePayload
    \/ AddPayload
    \/ ConvertPayload
    \/ PackStep
    \/ ReparseStep

SpecPack == InitPack /\ [][NextPack]_vars

(***************************************************************************)
(* The codec run on its own: encode a byte sequence, decode the text.       *)
(***************************************************************************)
CodecBytes == {0, 65, 255}

RECURSIVE SeqsUpTo(_, _)
SeqsUpTo(S, n) ==
    IF n = 0 THEN {<<>>}
    ELSE LET shorter == SeqsUpTo(S, n - 1)
         IN  shorter \cup {Append(s, b) : s \in {t \in shorter : Len(t) = n - 1}, b \in S}

CodecInputs == SeqsUpTo(CodecBytes, MaxCodecLen)

NoResult == [ok |-> FALSE, bytes |-> <<>>]

InitCodec ==
    /\ cdata \in CodecInputs
    /\ cenc = <<>>
    /\ cres = NoResult
    /\ cpc = "in"
    /\ DiskIdle
    /\ ArgsIdle

Encode ==
    /\ cpc = "in"
    /\ cenc' = encodeASCIIHex(cdata)
    /\ cpc' = "encoded"
    /\ UNCHANGED <<cdata, cres>>
    /\ UNCHANGED diskVars
    /\ UNCHANGED argVars

Decode ==
    /\ cpc = "encoded"
    /\ cres' = decodeASCIIHex(cenc)
    /\ cpc' = "decoded"
    /\ UNCHANGED <<cdata, cenc>>
    /\ UNCHANGED diskVars
    /\ UNCHANGED argVars

NextCodec == Encode \/ Decode

SpecCodec == InitCodec /\ [][NextCodec]_vars

(***************************************************************************)
(* ParseDSK run on its own, on buffers that reach each branch of the two    *)
(* parsers: payloads the block has no bytes for, header values at and past  *)
(* their limits, blocks of one repeated byte, every sector size code.       *)
(***************************************************************************)
\* Extended, one position of 256 bytes with one or two descriptors; the
\* payload area holds the filler byte 0xE5
ExtProbeCodes == {0, 1, 64}
ExtProbeLens == {0, 5, 300}
ExtProbeSec(R) == {Sec(R, N, len, <<>>) : N \in ExtProbeCodes, len \in ExtProbeLens}

ExtProbe(secs) ==
    MkDiskHeader(SigExtended, 1, 1, <<1>>) \o MkExtBlock(256, 0, 0, 0, secs, 229)

ExtProbes ==
    {ExtProbe(<<a>>) : a \in ExtProbeSec(1)}
      \cup {ExtProbe(<<a, b>>) : a \in ExtProbeSec(1), b \in ExtProbeSec(2)}

\* Standard, the three header values at and around their limits, followed by
\* as many bytes as the header asks for
HeadProbeBody(tracks, sides, trackSize) ==
    Max(tracks, 1) * Max(sides, 1) * Max(trackSize, 256)

HeadProbe(tracks, sides, trackSize) ==
    MkDiskHeader(MkStdSig(trackSize), tracks, sides, <<>>)
      \o Rep(229, HeadProbeBody(tracks, sides, trackSize))

HeadProbes ==
    {HeadProbe(t, s, z) : t \in {0, 1, 85, 86}, s \in {0, 1, 2, 3}, z \in {255, 256}}

\* Standard, one track of 256 + extra bytes with size code N in its header,
\* count descriptors that carry another size code, and a data area of 0xE5
SizeProbeExtras == {127, 128, 256, 6143, 6144, 16383, 16384}

SizeProbe(N, count, extra) ==
    MkDiskHeader(MkStdSig(256 + extra), 1, 1, <<>>)
      \o MkStdBlock(256 + extra, 0, 0, N,
                    [s \in 1..count |-> Sec(s, IF N = 0 THEN 1 ELSE 0, 0, <<>>)], 229)

SizeProbes ==
    {SizeProbe(N, c, x) : N \in 0..8, c \in 0..2, x \in SizeProbeExtras}

\* Standard, two positions of 256 bytes: one repeated byte over the whole
\* block, over its first 100 bytes only, or over its first 99 bytes only
FlatKinds == {"flat", "flat0", "head", "head0", "near", "near0"}

FlatBlock(kind) ==
    LET b    == IF kind \in {"flat", "head", "near"} THEN 229 ELSE 0
        same == IF kind \in {"flat", "flat0"} THEN 256
                ELSE IF kind \in {"head", "head0"} THEN 100 ELSE 99
    IN  [k \in 1..256 |-> IF k <= same THEN b ELSE 1]

FlatProbe(g, kinds) ==
    MkDiskHeader(MkStdSig(256), g[1], g[2], <<>>)
      \o FlatBlock(kinds[1]) \o FlatBlock(kinds[2])

FlatProbes ==
    {FlatProbe(g, ks) : g \in {<<2, 1>>, <<1, 2>>}, ks \in FlatKinds \X FlatKinds}

\* buffers whose first eight bytes are a tag, or a tag with one byte changed
\* or moved by one place, followed by the rest of either signature
SigProbeHeads ==
    {TagExtended, TagStandard,
     <<69, 88, 84, 69, 78, 68, 69, 100>>, <<77, 86, 32, 45, 32, 67, 80, 99>>,
     <<32, 69, 88, 84, 69, 78, 68, 69>>, <<109, 86, 32, 45, 32, 67, 80, 67>>}
SigProbeTails ==
    {SubSeq(SigExtended, 9, 34), SubSeq(MkStdSig(256), 9, 34), Rep(1, 26)}

SigProbe(head, tail, size) ==
    FitTo(MkDiskHeader(head \o tail, 1, 1, <<1>>)
            \o MkExtBlock(256, 0, 0, 0, <<>>, 229), size, 229)

SigProbes ==
    {SigProbe(h, t, z) : h \in SigProbeHeads, t \in SigProbeTails, z \in {255, 768}}

\* Extended, three table entries of 0, 256 or 512 bytes under a header that
\* declares three positions or two; the first block present holds no sector,
\* one, or two whose payloads run past it, and the buffer is whole or one
\* byte short; the bytes no header, descriptor or payload takes are 0
TableProbeFirst == {"empty", "one", "long"}
TableProbeGeometries == {<<3, 1>>, <<1, 2>>}

TableProbeBlock(entries, k, first, sides) ==
    LET lead == \A j \in 1..(k - 1) : entries[j] = 0
    IN  IF entries[k] = 0 THEN <<>>
        ELSE MkExtBlock(entries[k] * 256, (k - 1) \div sides, (k - 1) % sides, 0,
                        ExtSecs(IF lead THEN first ELSE "one"), 0)

TableProbe(g, entries, first, cut) ==
    LET whole == MkDiskHeader(SigExtended, g[1], g[2], entries)
                   \o ConcatAll([k \in 1..3 |-> TableProbeBlock(entries, k, first, g[2])])
    IN  SubSeq(whole, 1, Len(whole) - cut)

TableProbes ==
    {TableProbe(g, e, f, c) : g \in TableProbeGeometries, e \in [1..3 -> 0..2],
                              f \in TableProbeFirst, c \in {0, 1}}

\* Standard, two unformatted blocks of 256 bytes declared, the buffer cut
\* after the header, inside the first block, after it, or one byte short
CutProbeLens == {256, 511, 512, 767}
CutProbes ==
    {SubSeq(FlatProbe(<<2, 1>>, <<"flat", "flat0">>), 1, n) : n \in CutProbeLens}

\* Extended, a header alone whose track and side counts multiply to the 204
\* entries of the table, to more, or to the most two bytes give; the table is
\* all 0, or all 0 but its last entry, whose block the buffer does not hold
WideProbeCounts == {<<102, 2>>, <<204, 1>>, <<103, 2>>, <<205, 1>>, <<255, 255>>}
WideProbe(g, last) ==
    MkDiskHeader(SigExtended, g[1], g[2],
                 [k \in 1..TrackSizeTableLen |->
                    IF k = TrackSizeTableLen THEN last ELSE 0])
WideProbes == {WideProbe(g, last) : g \in WideProbeCounts, last \in {0, 1}}

ParseImages ==
    ExtProbes \cup HeadProbes \cup SizeProbes \cup FlatProbes \cup SigProbes
      \cup TableProbes \cup CutProbes \cup WideProbes

InitParse ==
    /\ CodecIdle
    /\ ArgsIdle
    /\ image \in ParseImages
    /\ dataFormat = "binary"
    /\ dsk = NotParsed
    /\ fs = NoDir
    /\ packed = NotPacked
    /\ dsk2 = NotParsed
    /\ edit = NoEdit
    /\ pc = "start"

NextParse == ParseStep

SpecParse == InitParse /\ [][NextParse]_vars

(***************************************************************************)
(* The payload codecs run on their own: a writer GetFormatWriter returns    *)
(* writes a byte sequence to a file, the reader GetFormatReader returns     *)
(* for the same format reads the file.                                      *)
(***************************************************************************)
MaxTextLen == 3

\* '=', CR, LF, space, 'A' and a byte above 126
TextBytes == {61, 13, 10, 32, 65, 200}

\* all 95 printable bytes once, and each of them four times in a row
PrintableOnce == [k \in 1..95 |-> 31 + k]
PrintableRuns == [k \in 1..380 |-> 32 + ((k - 1) \div 4)]

\* the printable bytes below '*' and a run of four zero bytes, and the
\* printable bytes below '0' and a zero byte: the first printable byte such
\* data does not hold is '*', or '0'
UpToStar == [k \in 1..10 |-> 31 + k] \o <<0, 0, 0, 0>>
UpToZero == [k \in 1..16 |-> 31 + k] \o <<0>>

\* short sequences of those bytes; lines the quoted-printable writer has to
\* break: 80 letters, and 75 letters with a space or a '=' after them; and
\* sequences that leave chooseToggle no unused printable byte, or none
\* below '*' or '0'
TextInputs ==
    SeqsUpTo(TextBytes, MaxTextLen)
      \cup {Rep(65, 80), Append(Rep(65, 75), 32), Append(Rep(65, 75), 61),
            Rep(65, 74) \o <<200, 10>>}
      \cup {p \o PrintableOnce \o q : p \in SeqsUpTo({0, 32, 33}, 1),
                                       q \in SeqsUpTo({0, 32, 33}, 1)}
      \cup {PrintableRuns, UpToStar, UpToZero}

\* files in the asciihex format that no writer of the program wrote.  A bad
\* one is text, the toggle, hex pairs, a piece the decoder cannot take, and
\* the toggle that ends the file
HandToggles == {124, 32}
HandLeads == {<<>>, <<72, 105>>}
HandPairs == {<<>>, <<52, 49>>}
\* "4": one character where a pair has to stand
HandIncomplete == {<<52>>}
\* "4G", "G4", "GG", "4" and LF: a pair that is not two hex digits
HandNotHex == {<<52, 71>>, <<71, 52>>, <<71, 71>>, <<52, 10>>}
\* "41*", "41*G": a run with nothing, or no hex digit, after the '*'
HandNoCount == {<<52, 49, 42>>, <<52, 49, 42, 71>>}
\* "41*80000000", "41*FFFFFFFFF": a count that leaves 32 bits; "G1*4": a
\* run of a byte that is not two hex digits
HandBadCount ==
    {<<52, 49, 42, 56>> \o Rep(48, 7), <<52, 49, 42>> \o Rep(70, 9), <<71, 49, 42, 52>>}

HandText(lead, toggle, pairs, piece) ==
    lead \o <<toggle>> \o pairs \o piece \o <<toggle>>

BadTextsWith(pieces) ==
    {HandText(l, t, h, x) : l \in HandLeads, t \in HandToggles, h \in HandPairs,
                            x \in pieces}

BadTexts ==
    {<<>>} \cup BadTextsWith(HandIncomplete \cup HandNotHex \cup HandNoCount
                               \cup HandBadCount)

\* "Hi|41*4|", "Hi|", "|4142|": files the decoder takes
GoodTexts ==
    {<<72, 105, 124, 52, 49, 42, 52, 124>>, <<72, 105, 124>>,
     <<124, 52, 49, 52, 50, 124>>}

HandTexts == BadTexts \cup GoodTexts

\* either the data a writer is given, or a file that is there to be read
InitFormat ==
    /\ \/ /\ cdata \in TextInputs
          /\ cenc = <<>>
          /\ cpc = "in"
          /\ dataFormat \in Formats
       \/ /\ cdata = <<>>
          /\ cenc \in HandTexts
          /\ cpc = "written"
          /\ dataFormat = "asciihex"
    /\ ArgsIdle
    /\ cres = NoResult
    /\ image = <<>>
    /\ dsk = NotParsed
    /\ fs = NoDir
    /\ packed = NotPacked
    /\ dsk2 = NotParsed
    /\ edit = NoEdit
    /\ pc = "idle"

WriteFormat ==
    /\ cpc = "in"
    /\ cenc' = FormatWrite(dataFormat, cdata)
    /\ cpc' = "written"
    /\ UNCHANGED <<cdata, cres>>
    /\ UNCHANGED diskVars
    /\ UNCHANGED argVars

ReadFormat ==
    /\ cpc = "written"
    /\ cres' = FormatRead(dataFormat, cenc)
    /\ cpc' = "read"
    /\ UNCHANGED <<cdata, cenc>>
    /\ UNCHANGED diskVars
    /\ UNCHANGED argVars

NextFormat == WriteFormat \/ ReadFormat

SpecFormat == InitFormat /\ [][NextFormat]_vars

(***************************************************************************)
(* ParseUnpackArgs (main.go).  An argument is a string; the argument list   *)
(* is a sequence, Go's args[i] being args[i + 1] here.                      *)
(***************************************************************************)
MaxArgs == 3

ArgsError(msg) ==
    [done |-> TRUE, err |-> msg, Filename |-> "", OutputDir |-> "", DataFormat |-> ""]

\* one turn of the loop over args[1:], taken when the loop is at argument j;
\* st.i is the loop variable, which the flag moves on by two
argStep(list, st, j) ==
    IF st.i # j \/ st.err # "" THEN st
    ELSE IF list[j] = "--data-format"
    THEN IF j + 1 > Len(list)
         THEN [i |-> j, err |-> "--data-format requires a value",
               outputDir |-> st.outputDir, dataFormat |-> st.dataFormat]
         ELSE IF list[j + 1] \notin {"binary", "hex", "quoted"}
         THEN [i |-> j, err |-> "invalid data format",
               outputDir |-> st.outputDir, dataFormat |-> list[j + 1]]
         ELSE [i |-> j + 2, err |-> "", outputDir |-> st.outputDir,
               dataFormat |-> list[j + 1]]
    ELSE [i |-> j + 1, err |-> "",
          outputDir |-> IF st.outputDir = "" THEN list[j] ELSE st.outputDir,
          dataFormat |-> st.dataFormat]

ParseUnpackArgs(list) ==
    IF Len(list) < 1 THEN ArgsError("insufficient arguments")
    ELSE
      LET Step(st, j) == argStep(list, st, j)
          end == Fold(Step, [i |-> 2, err |-> "", outputDir |-> "",
                             dataFormat |-> "binary"], 2, Len(list))
      IN  IF end.err # "" THEN ArgsError(end.err)
          ELSE [done |-> TRUE, err |-> "", Filename |-> list[1],
                OutputDir |-> end.outputDir, DataFormat |-> end.dataFormat]

\* the words of the argument lists, and the lists TestParseUnpackArgs passes
ArgWords == {"unpack", "test.dsk", "output", "--data-format", "hex", "invalid"}

TestArgLists ==
    {<<"unpack", "test.dsk">>,
     <<"unpack", "test.dsk", "output">>,
     <<"unpack", "test.dsk", "--data-format", "binary">>,
     <<"unpack", "test.dsk", "--data-format", "hex">>,
     <<"unpack", "test.dsk", "--data-format", "quoted">>,
     <<"unpack", "test.dsk", "output", "--data-format", "hex">>,
     <<"unpack", "test.dsk", "--data-format", "quoted", "output">>,
     <<"unpack">>,
     <<"unpack", "test.dsk", "--data-format">>,
     <<"unpack", "test.dsk", "--data-format", "invalid">>}

\* the lists main passes for each tag a payload writer exists for
TagArgLists == {<<"test.dsk", "--data-format", f>> : f \in Formats}

ArgLists == SeqsUpTo(ArgWords, MaxArgs) \cup TestArgLists \cup TagArgLists

InitArgs ==
    /\ CodecIdle
    /\ DiskIdle
    /\ args \in ArgLists
    /\ unpackArgs = NotRun

CallParseUnpackArgs ==
    /\ ~unpackArgs.done
    /\ unpackArgs' = ParseUnpackArgs(args)
    /\ UNCHANGED args
    /\ UNCHANGED codecVars
    /\ UNCHANGED diskVars

NextArgs == CallParseUnpackArgs

SpecArgs == InitArgs /\ [][NextArgs]_vars

(***************************************************************************)
(* C1: decodeASCIIHex(encodeASCIIHex(x)) returns x without error for every  *)
(* byte sequence x, the empty one and those with runs of four or more       *)
(* identical bytes included, whatever byte follows a run.                   *)
(***************************************************************************)
C1_RoundTrip ==
    cpc = "decoded" => (cres.ok /\ cres.bytes = cdata)

(***************************************************************************)
(* Notions the properties of Unpack and Pack are stated with.               *)
(***************************************************************************)
Unedited == edit = NoEdit

\* the positions of the position loop of Pack
PackPositions(tree) == 0..(PackTracksField(tree) * PackSidesField(tree) - 1)

\* Pack accepted disk-image.meta and entered its position loop
LoopEntered(tree) ==
    /\ PackDiskError(tree) = ""
    /\ PackTracksField(tree) * PackSidesField(tree) <= TrackSizeTableLen

\* the block Pack wrote for position i, as a set: empty when it wrote none
BlocksAt(i) == {packed.blocks[k] : k \in {n \in 1..Len(packed.blocks) :
                                            packed.blocks[n].pos = i}}

\* the fields of a track a round trip has to keep
TrackFieldsOf(t) ==
    <<t.header.trackNum, t.header.sideNum, t.header.sectorSize,
      t.header.sectorCount, t.header.gap3, t.header.filler, t.sectors>>

SameTracks(a, b) ==
    /\ Len(a.tracks) = Len(b.tracks)
    /\ \A n \in 1..Len(a.tracks) : TrackFieldsOf(a.tracks[n]) = TrackFieldsOf(b.tracks[n])

(***************************************************************************)
(* C2: for every Extended container that parses to a model M, Pack of what  *)
(* Unpack wrote for M succeeds and its output re-parses to a model with the *)
(* tracks, sector descriptors and sector payloads of M.                     *)
(***************************************************************************)
C2_ExtendedRoundTrip ==
    (Unedited /\ dsk.format = "extended" /\ dsk.status = "ok") =>
        /\ pc = "packed" => packed.err = ""
        /\ pc = "done" => (dsk2.status = "ok" /\ SameTracks(dsk, dsk2))

(***************************************************************************)
(* C3: for a track directory written by Unpack, Pack writes the sector      *)
(* descriptors, and then the payloads, in the order of the sectors of the   *)
(* parsed track: the k-th descriptor written has the ID of the k-th parsed  *)
(* sector and the k-th payload written is the one read for that ID.         *)
(***************************************************************************)
C3_OrderPreserved ==
    (pc = "packed" /\ Unedited /\ packed.err = "") =>
        \A k \in 1..Len(packed.blocks) :
            LET b == packed.blocks[k]
                n == TrackAt(dsk, b.pos)
                ids == [s \in 1..Len(dsk.tracks[n].sectors) |->
                          dsk.tracks[n].sectors[s].info.R]
            IN  /\ n # 0
                /\ [s \in 1..Len(b.infos) |-> b.infos[s].R] = ids
                /\ b.payloads = [s \in 1..Len(ids) |-> b.dataMap[ids[s]]]

(***************************************************************************)
(* C4: Pack returns an error when the track size table entry of a position  *)
(* is zero but a track directory holding sector files exists for it.        *)
(***************************************************************************)
C4_ZeroEntryDirRejected ==
    (pc = "packed" /\ LoopEntered(fs)) =>
        \A i \in PackPositions(fs) :
            LET name == PackTrackDir(fs, i, PackSidesField(fs))
            IN  (/\ PackTable(fs)[i + 1] = 0
                 /\ Has(fs.tracks, name)
                 /\ DOMAIN fs.tracks[name].sectorMeta # {})
                => packed.err # ""

(***************************************************************************)
(* C5: Pack returns an error when a position below tracks * sides has a     *)
(* nonzero table entry and no directory under either name, track-NN or      *)
(* track-NN-side-S; the error is the one about the missing directory when   *)
(* the positions before it were packed without error.                       *)
(***************************************************************************)
NoTrackDir(tree, i) ==
    /\ PackTable(tree)[i + 1] # 0
    /\ ~Has(tree.tracks, DirPos(i))
    /\ ~Has(tree.tracks, DirSide(i \div PackSidesField(tree), i % PackSidesField(tree)))

C5_MissingDirRejected ==
    (pc = "packed" /\ LoopEntered(fs)) =>
        \A i \in PackPositions(fs) :
            NoTrackDir(fs, i) =>
                /\ packed.err # ""
                /\ PackTracks(fs, PackTable(fs), PackSidesField(fs), i,
                              PackStart(fs)).err = ""
                   => packed.err = "track should exist but directory not found"

C5_Witness ==
    /\ pc = "packed"
    /\ edit.kind = "RemoveTrackDir"
    /\ LoopEntered(fs)
    /\ \E i \in PackPositions(fs) : i > 0 /\ NoTrackDir(fs, i)
    /\ packed.err = "track should exist but directory not found"

(***************************************************************************)
(* C6: when Pack returns an error, no output file exists afterwards.        *)
(***************************************************************************)
C6_NoFileAfterError ==
    (pc = "packed" /\ packed.err # "") => ~packed.created

(***************************************************************************)
(* C7: Pack returns an error when a required field is missing or has the    *)
(* wrong type in a metadata file it reads: when Pack returns no error,      *)
(* disk-image.meta, the track.meta of every track written and every sector  *)
(* metadata file of those tracks hold all their required fields.            *)
(***************************************************************************)
HoldsNumbers(meta, keys) == \A key \in keys : IsNum(meta, key)

C7_MissingFieldRejected ==
    (pc = "packed" /\ packed.err = "") =>
        \A k \in 1..Len(packed.blocks) :
            LET dir == fs.tracks[PackTrackDir(fs, packed.blocks[k].pos,
                                              PackSidesField(fs))]
            IN  /\ HoldsNumbers(dir.meta, TrackFields)
                /\ \A num \in DOMAIN dir.sectorMeta :
                       HoldsNumbers(dir.sectorMeta[num], SectorFields)

(***************************************************************************)
(* C8: for every sector metadata file of a track directory Pack reads,      *)
(* DetectFormatFromFile succeeds exactly when one of the four payload files *)
(* of that sector number exists; with none or several Pack returns an       *)
(* error; and when Pack returns no error the payload it holds for the       *)
(* sector is the file's content decoded by the codec of its extension.      *)
(***************************************************************************)
PayloadFormats(dir, num) ==
    {f \in Formats : Has(dir.payload, PayloadName(num, ExtOf(f)))}

DecodedAs(f, text) ==
    CASE f = "binary" -> [ok |-> TRUE, bytes |-> text]
      [] f = "hex" -> hexDecode(text)
      [] f = "quoted" -> qpDecode(text)
      [] f = "asciihex" -> decodeASCIIHex(text)

C8_OnePayloadPerSector ==
    (pc = "packed" /\ LoopEntered(fs)) =>
        \A i \in PackPositions(fs) :
            LET name == PackTrackDir(fs, i, PackSidesField(fs))
                dir  == fs.tracks[name]
            IN  (PackTable(fs)[i + 1] # 0 /\ Has(fs.tracks, name)) =>
                \A num \in DOMAIN dir.sectorMeta :
                    LET found == PayloadFormats(dir, num)
                    IN  /\ DetectFormatFromFile(dir, num).ok <=> Cardinality(found) = 1
                        /\ Cardinality(found) # 1 => packed.err # ""
                        /\ packed.err = "" =>
                             \A f \in found : \A b \in BlocksAt(i) :
                                LET got == DecodedAs(f, dir.payload[PayloadName(num, ExtOf(f))])
                                IN  got.ok /\ b.dataMap[num] = got.bytes

C8_Witness ==
    /\ pc = "packed"
    /\ edit.kind = "AddPayload"
    /\ LoopEntered(fs)
    /\ Cardinality(PayloadFormats(fs.tracks[edit.dir], edit.num)) = 2
    /\ packed.err = "failed to detect format"

(***************************************************************************)
(* C9: for a Standard container that parses, Pack of what Unpack wrote      *)
(* succeeds, and its output is parsed as a Standard container with the same *)
(* track count, side count, track size, sector descriptors and payloads.    *)
(***************************************************************************)
C9_StandardRoundTrip ==
    (Unedited /\ dsk.format = "standard" /\ dsk.status = "ok") =>
        /\ pc = "packed" => packed.err = ""
        /\ pc = "done" =>
             /\ dsk2.status = "ok"
             /\ dsk2.format = "standard"
             /\ dsk2.header.tracks = dsk.header.tracks
             /\ dsk2.header.sides = dsk.header.sides
             /\ dsk2.trackSize = dsk.trackSize
             /\ SameTracks(dsk, dsk2)

(***************************************************************************)
(* C10: when Pack succeeds the output file has exactly 256 bytes plus 256   *)
(* times the table entries of the positions below tracks * sides, and the   *)
(* block of position i starts at 256 plus 256 times the entries below i,    *)
(* whatever the directory holds.                                            *)
(***************************************************************************)
C10_ExactLayout ==
    (pc = "packed" /\ packed.err = "") =>
        /\ Len(packed.bytes)
             = HeaderSize + TableSum(PackTable(fs),
                                     PackTracksField(fs) * PackSidesField(fs))
        /\ \A k \in 1..Len(packed.blocks) :
              packed.blocks[k].start
                = HeaderSize + TableSum(PackTable(fs), packed.blocks[k].pos)

(***************************************************************************)
(* Notions the properties of the two parsers are stated with.               *)
(***************************************************************************)
ParsedOK == pc = "parsed" /\ dsk.status = "ok"

\* every sector, or some sector, of a parsed model satisfies P, which is given
\* the header of the track and the sector
AllSectors(d, P(_, _)) ==
    \A t \in 1..Len(d.tracks) : \A s \in 1..Len(d.tracks[t].sectors) :
        P(d.tracks[t].header, d.tracks[t].sectors[s])
SomeSector(d, P(_, _)) ==
    \E t \in 1..Len(d.tracks) : \E s \in 1..Len(d.tracks[t].sectors) :
        P(d.tracks[t].header, d.tracks[t].sectors[s])

\* the payload has 128 * 2^N bytes; from N = 17 on, where the product leaves
\* the numbers of the model, what it implies: more than 128 * 2^16 bytes
HasCodeLength(data, N) ==
    IF N <= 16 THEN Len(data) = 128 * Pow2(N) ELSE Len(data) > 128 * Pow2(16)

(***************************************************************************)
(* C11: after a successful parse every sector's payload length equals its   *)
(* length rule: in Extended the explicit data length if nonzero, else       *)
(* 128 * 2^N of the sector descriptor; in Standard the track-level sector   *)
(* length (0x1800 for N = 6, else 128 * 2^N of the track header); also      *)
(* when the source bytes ran out before the payload was complete.           *)
(***************************************************************************)
C11_PayloadLength ==
    ParsedOK =>
      AllSectors(dsk, LAMBDA h, sec :
        IF dsk.format = "extended"
        THEN IF sec.info.len # 0 THEN Len(sec.data) = sec.info.len
             ELSE HasCodeLength(sec.data, sec.info.N)
        ELSE IF h.sectorSize = 6 THEN Len(sec.data) = 6144
             ELSE HasCodeLength(sec.data, h.sectorSize))

(***************************************************************************)
(* C12: on a buffer of at least 256 bytes ParseDSK takes the Extended       *)
(* parser iff the buffer starts with "EXTENDED" and the Standard parser iff *)
(* it starts with "MV - CPC"; otherwise, and only then, it returns the      *)
(* signature error and no model.  The two classes exclude each other, and   *)
(* no byte after the eight of the tag takes part.                           *)
(***************************************************************************)
C12_Classified ==
    (pc = "parsed" /\ Len(image) >= HeaderSize) =>
      LET ext == SubSeq(image, 1, 8) = TagExtended
          std == SubSeq(image, 1, 8) = TagStandard
      IN  /\ ~(ext /\ std)
          /\ (dsk.status = "invalid file signature") <=> (~ext /\ ~std)
          /\ dsk.status = "invalid file signature"
               => (dsk.format = "" /\ dsk.tracks = <<>>)
          /\ dsk.status = "ok"
               => /\ dsk.format \in {"extended", "standard"}
                  /\ (dsk.format = "extended") <=> ext
                  /\ (dsk.format = "standard") <=> std

\* an Extended model parsed from a buffer that goes on, after the tag, with
\* the bytes of the Standard signature
C12_Witness ==
    /\ ParsedOK
    /\ dsk.format = "extended"
    /\ SubSeq(image, 9, 21) = SubSeq(SigStandard, 9, 21)

\* the buffer is one ParseDSK hands to parseStandardDSK
GivenToStandard == Len(image) >= HeaderSize /\ SubSeq(image, 1, 8) = TagStandard

(***************************************************************************)
(* C13: parseStandardDSK returns an error and no model whenever the track   *)
(* count (byte 48) is 0 or above 85, the side count (byte 49) is 0 or above *)
(* 2, or the track size (bytes 32 and 33, little-endian) is below 256; a    *)
(* model it returns has a track count in 1..85, a side count in 1..2 and a  *)
(* track size of at least 256.                                              *)
(***************************************************************************)
C13_HeaderRanges ==
    (pc = "parsed" /\ GivenToStandard) =>
      LET tracks    == image[49]
          sides     == image[50]
          trackSize == image[33] + 256 * image[34]
      IN  /\ (tracks = 0 \/ tracks > 85 \/ sides = 0 \/ sides > 2 \/ trackSize < 256)
               => (dsk.status # "ok" /\ dsk.format = "" /\ dsk.tracks = <<>>)
          /\ dsk.status = "ok"
               => /\ dsk.header.tracks \in 1..85
                  /\ dsk.header.sides \in 1..2
                  /\ dsk.trackSize >= 256
                  /\ dsk.header.tracks = tracks
                  /\ dsk.header.sides = sides
                  /\ dsk.trackSize = trackSize

\* a header with the highest counts accepted and a track size of 255, turned
\* down for the track size
C13_Witness ==
    /\ pc = "parsed"
    /\ GivenToStandard
    /\ image[49] = 85
    /\ image[50] = 2
    /\ image[33] + 256 * image[34] = 255
    /\ dsk.status = "invalid track size"

\* the geometry a Standard buffer declares and the block of position i
DeclaredTracks == image[49]
DeclaredSides == image[50]
DeclaredTrackSize == image[33] + 256 * image[34]
DeclaredPositions == 0..(DeclaredTracks * DeclaredSides - 1)
BlockAt(i) ==
    SubSeq(image, HeaderSize + i * DeclaredTrackSize + 1,
           HeaderSize + (i + 1) * DeclaredTrackSize)

\* parseStandardDSK reaches its position loop with every block in the buffer
LoopReached ==
    /\ GivenToStandard
    /\ DeclaredTracks \in 1..85
    /\ DeclaredSides \in 1..2
    /\ DeclaredTrackSize >= 256
    /\ Len(image) >= HeaderSize + DeclaredTracks * DeclaredSides * DeclaredTrackSize

\* the first min(100, blockSize) bytes of the block are all the same value
UniformStart(b) == \A k \in 1..Min(100, Len(b)) : b[k] = b[1]

(***************************************************************************)
(* C14: for every Standard track block whose first min(100, blockSize)      *)
(* bytes are all the same value, parseStandardDSK emits for that position a *)
(* track with sectorCount 0 and no sectors, whose track and side numbers    *)
(* are the position index divided by the side count and its remainder, and  *)
(* goes on without an error: when the parse fails, some block was not of    *)
(* that kind.                                                               *)
(***************************************************************************)
C14_UnformattedTrack ==
    (pc = "parsed" /\ LoopReached) =>
      /\ dsk.status = "ok" =>
           /\ Len(dsk.tracks) = DeclaredTracks * DeclaredSides
           /\ \A i \in DeclaredPositions :
                UniformStart(BlockAt(i)) =>
                  /\ dsk.tracks[i + 1].header.sectorCount = 0
                  /\ dsk.tracks[i + 1].sectors = <<>>
                  /\ dsk.tracks[i + 1].header.trackNum = i \div DeclaredSides
                  /\ dsk.tracks[i + 1].header.sideNum = i % DeclaredSides
      /\ dsk.status # "ok" => \E i \in DeclaredPositions : ~UniformStart(BlockAt(i))

\* the second side of a track: a block of 100 bytes 0xE5 and other bytes
\* after them, parsed into an empty track of side 1
C14_Witness ==
    /\ ParsedOK
    /\ LoopReached
    /\ DeclaredSides = 2
    /\ UniformStart(BlockAt(1))
    /\ BlockAt(1)[1] = 229
    /\ BlockAt(1)[101] # 229
    /\ dsk.tracks[2].sectors = <<>>
    /\ dsk.tracks[2].header.sideNum = 1

\* every sector of the parsed Standard model has the length its track
\* header's size code gives: 0x1800 for 6, else 128 * 2^N, N at most 7
TrackCodeLengths ==
    AllSectors(dsk, LAMBDA h, sec :
        /\ h.sectorSize <= 7
        /\ Len(sec.data) = IF h.sectorSize = 6 THEN 6144 ELSE 128 * Pow2(h.sectorSize))

(***************************************************************************)
(* C15: in the Standard parser every sector of a track has the same payload *)
(* length, computed from the track header's size code N and not from the    *)
(* descriptor's: 128 * 2^N for N in {0,1,2,3,4,5,7} and 0x1800 for N = 6;   *)
(* a track whose header has N > 7 (a block that is not taken as             *)
(* unformatted) is rejected with an error.                                  *)
(***************************************************************************)
C15_TrackSectorLength ==
    (pc = "parsed" /\ LoopReached) =>
      /\ dsk.status = "ok" => TrackCodeLengths
      /\ (\E i \in DeclaredPositions :
            ~UniformStart(BlockAt(i)) /\ BlockAt(i)[21] > 7) => dsk.status # "ok"

(***************************************************************************)
(* C16: for every byte sequence x, writing x with the hexadecimal codec and *)
(* reading it back yields x, and writing x with the quoted-escape codec     *)
(* (WriteQuotedFormat) and reading it back (ReadQuotedFormat) yields x,     *)
(* also when x holds '=', CR, LF, trailing spaces or bytes above 126.       *)
(***************************************************************************)
C16_TextRoundTrip ==
    (cpc = "read" /\ dataFormat \in {"hex", "quoted"}) =>
      (cres.ok /\ cres.bytes = cdata)

(***************************************************************************)
(* C17: for every non-empty input, no byte that encodeASCIIHex emits as a   *)
(* text-mode literal equals the toggle byte chooseToggle chose: every input *)
(* byte equal to the toggle is emitted in hex mode or inside a run token,   *)
(* also when the input uses all 95 printable bytes and the least frequent   *)
(* one is the toggle.  The literals and the bytes of the runs and of hex    *)
(* mode are together the bytes of the input.                                *)
(***************************************************************************)
C17_ToggleNeverLiteral ==
    (cpc \in {"written", "read"} /\ dataFormat = "asciihex" /\ cdata # <<>>) =>
      LET lit    == encodeScan(cdata).lit
          toggle == chooseToggle(cdata)
      IN  /\ \A k \in 1..Len(lit) : lit[k] # toggle
          /\ Len(lit) <= Len(cdata) - Freq(cdata, toggle)
          /\ cenc[Len(cenc)] = toggle

\* an input that holds every printable byte, its toggle among them, and some
\* bytes of which went out as text
C17_Witness ==
    /\ cpc = "written"
    /\ dataFormat = "asciihex"
    /\ \A b \in Printable : Freq(cdata, b) > 0
    /\ Freq(cdata, chooseToggle(cdata)) > 0
    /\ Len(encodeScan(cdata).lit) > 0

(***************************************************************************)
(* C18: decodeASCIIHex returns an error and no bytes for the empty input,   *)
(* for an input in which a hex-mode position has fewer than two characters  *)
(* left or two characters that are not hex digits, and for a run token      *)
(* whose count after '*' is empty or not parsable as hexadecimal.           *)
(***************************************************************************)
C18_DecodeErrors ==
    (cpc = "read" /\ dataFormat = "asciihex" /\ cenc \in BadTexts) =>
      (~cres.ok /\ cres.bytes = <<>>)

\* the file "Hi|41*|": a run with an empty count, turned down
C18_Witness ==
    /\ cpc = "read"
    /\ dataFormat = "asciihex"
    /\ cenc = <<72, 105, 124, 52, 49, 42, 124>>
    /\ ~cres.ok

(***************************************************************************)
(* Notions the properties of ParseUnpackArgs are stated with.               *)
(***************************************************************************)
\* the positions of list from lo on that hold neither the flag nor its value
FreeArgs(list, lo) ==
    {k \in lo..Len(list) :
        list[k] # "--data-format" /\ (k = lo \/ list[k - 1] # "--data-format")}

\* a list as the tests pass it: the command word, the file name, then at
\* most one output directory and at most one flag with its value
TestShaped(list) ==
    /\ Len(list) >= 2
    /\ list[1] = "unpack"
    /\ list[2] \notin {"unpack", "--data-format"}
    /\ Cardinality(FreeArgs(list, 3)) <= 1
    /\ Cardinality({k \in 3..Len(list) : list[k] = "--data-format"}) <= 1
    /\ \A k \in 3..Len(list) :
         list[k] = "--data-format" =>
           (k < Len(list) /\ list[k + 1] \in {"binary", "hex", "quoted"})

(***************************************************************************)
(* C19: given an argument list as the tests pass it (the command word       *)
(* "unpack", the file name, then optional arguments), ParseUnpackArgs       *)
(* returns no error, Filename = the file name, OutputDir = the remaining    *)
(* argument that is neither "--data-format" nor its value ("" when there is *)
(* none) and DataFormat = the value after "--data-format", or "binary"      *)
(* without the flag; the directory and the flag come in either order.       *)
(***************************************************************************)
C19_TestArguments ==
    (unpackArgs.done /\ TestShaped(args)) =>
      /\ unpackArgs.err = ""
      /\ unpackArgs.Filename = args[2]
      /\ \A k \in FreeArgs(args, 3) : unpackArgs.OutputDir = args[k]
      /\ FreeArgs(args, 3) = {} => unpackArgs.OutputDir = ""
      /\ \A k \in 3..(Len(args) - 1) :
           args[k] = "--data-format" => unpackArgs.DataFormat = args[k + 1]
      /\ (\A k \in 3..Len(args) : args[k] # "--data-format")
           => unpackArgs.DataFormat = "binary"

(***************************************************************************)
(* C20: ParseUnpackArgs returns an error containing "insufficient           *)
(* arguments" when the list holds only the command word "unpack", an error  *)
(* containing "--data-format requires a value" when "--data-format" is the  *)
(* last argument, and an error containing "invalid data format" when the    *)
(* value after "--data-format" is not an accepted format tag.               *)
(***************************************************************************)
C20_ArgumentErrors ==
    unpackArgs.done =>
      /\ args = <<"unpack">> => unpackArgs.err = "insufficient arguments"
      /\ (TestShaped(SubSeq(args, 1, Len(args) - 1))
            /\ args[Len(args)] = "--data-format")
           => unpackArgs.err = "--data-format requires a value"
      /\ (TestShaped(SubSeq(args, 1, Len(args) - 2))
            /\ args[Len(args) - 1] = "--data-format"
            /\ args[Len(args)] \notin {"binary", "hex", "quoted"})
           => unpackArgs.err = "invalid data format"

(***************************************************************************)
(* C21: each of the four data-format tags binary, hex, quoted and asciihex  *)
(* is accepted by the unpack argument parser and selects the matching       *)
(* payload writer: ParseUnpackArgs accepts a value after "--data-format"    *)
(* exactly when GetFormatWriter has a writer for it, and returns it as      *)
(* DataFormat.                                                              *)
(***************************************************************************)
C21_SameTags ==
    (unpackArgs.done /\ Len(args) = 3 /\ args[1] = "test.dsk"
       /\ args[2] = "--data-format") =>
      /\ (unpackArgs.err = "") <=> (args[3] \in Formats)
      /\ args[3] \in Formats => unpackArgs.DataFormat = args[3]

\* the positions the header of a parsed Extended container declares whose
\* table entry is not 0, the byte offset of the block of position i, and the
\* place of position i among the declared nonzero positions
ExtNonzero(h) ==
    {i \in 0..(Min(h.tracks * h.sides, TrackSizeTableLen) - 1) : h.table[i + 1] # 0}
ExtOffsetOf(h, i) ==
    LET Step(sum, j) == [n |-> sum.n + h.table[j + 1] * 256]
    IN  Fold(Step, [n |-> HeaderSize], 0, i - 1).n
ExtRank(h, i) == Cardinality({j \in ExtNonzero(h) : j <= i})
ExtParsedOK == ParsedOK /\ dsk.format = "extended"

(***************************************************************************)
(* C22: on success parseExtendedDSK emits exactly one track for each        *)
(* position i < trackCount * sideCount whose table entry is nonzero, in     *)
(* increasing position order, and none for zero entries; the block of a     *)
(* position is the table[i] * 256 bytes at offset 256 + the sum of          *)
(* table[j] * 256 over the earlier positions j, whatever the sector counts  *)
(* and payload lengths of the earlier tracks.                               *)
(***************************************************************************)
C22_OneTrackPerEntry ==
    ExtParsedOK =>
      LET h == ReadDiskHeader(image)
      IN  /\ Len(dsk.tracks) = Cardinality(ExtNonzero(h))
          /\ \A i \in ExtNonzero(h) :
               LET at    == ExtOffsetOf(h, i)
                   block == Slice(image, at, at + h.table[i + 1] * 256)
               IN  /\ at + h.table[i + 1] * 256 <= Len(image)
                   /\ dsk.tracks[ExtRank(h, i)].header = ReadTrackHeader(block)
                   /\ dsk.tracks[ExtRank(h, i)] = ExtTrack(block, i).track

\* a parse that succeeded on a 512-byte block with sectors, a zero entry and
\* a 256-byte block, in this order
C22_Witness ==
    /\ ExtParsedOK
    /\ LET h == ReadDiskHeader(image)
       IN  /\ h.tracks * h.sides = 3
           /\ h.table[1] = 2 /\ h.table[2] = 0 /\ h.table[3] = 1
           /\ Len(dsk.tracks) = 2
           /\ Len(dsk.tracks[1].sectors) = 2
           /\ dsk.tracks[2].header.trackNum = 2

\* the position of the n-th track of the parsed model: in Extended the n-th
\* declared position with a nonzero table entry, in Standard n - 1
PositionOf(n) ==
    IF dsk.format = "extended"
    THEN CHOOSE i \in ExtNonzero(dsk.header) : ExtRank(dsk.header, i) = n
    ELSE n - 1

\* the header of the n-th parsed track stores other numbers than its position
StoredElsewhere(n) ==
    LET h == dsk.tracks[n].header
        i == PositionOf(n)
    IN  h.trackNum # i \div dsk.header.sides \/ h.sideNum # i % dsk.header.sides

(***************************************************************************)
(* C23: when the track and side numbers stored in a parsed track's header   *)
(* differ from those of its position i (i / sideCount, i % sideCount),      *)
(* Unpack followed by Pack succeeds and writes at position i a block with   *)
(* the stored numbers, the header fields and the sectors of that track: the *)
(* track is neither moved to another position nor replaced by an empty one. *)
(***************************************************************************)
C23_StoredNumbersKept ==
    (pc = "packed" /\ Unedited /\ dsk.status = "ok") =>
        \A n \in 1..Len(dsk.tracks) :
            StoredElsewhere(n) =>
              /\ packed.err = ""
              /\ \E b \in BlocksAt(PositionOf(n)) :
                   /\ b.header.trackNum = dsk.tracks[n].header.trackNum
                   /\ b.header.sideNum = dsk.tracks[n].header.sideNum
                   /\ b.header.sectorCount = dsk.tracks[n].header.sectorCount
                   /\ b.infos = [s \in 1..Len(dsk.tracks[n].sectors) |->
                                   dsk.tracks[n].sectors[s].info]
                   /\ b.payloads = [s \in 1..Len(dsk.tracks[n].sectors) |->
                                      dsk.tracks[n].sectors[s].data]

\* the block of the n-th track of a parsed Extended container, and the bytes
\* of it that are left when the payload of its s-th sector is read: the 24
\* header bytes, the descriptors and the earlier payloads are taken first
ExtBlockOfTrack(n) ==
    LET at == ExtOffsetOf(dsk.header, PositionOf(n))
    IN  Slice(image, at, at + dsk.header.table[PositionOf(n) + 1] * 256)
ExtTakenBefore(n, s) ==
    LET Step(sum, k) == [n |-> sum.n + Len(dsk.tracks[n].sectors[k].data)]
    IN  Min(Len(ExtBlockOfTrack(n)),
            Fold(Step, [n |-> 24 + 8 * Len(dsk.tracks[n].sectors)], 1, s - 1).n)
ExtLeftFor(n, s) == Len(ExtBlockOfTrack(n)) - ExtTakenBefore(n, s)
ExtShort(n, s) == ExtLeftFor(n, s) < Len(dsk.tracks[n].sectors[s].data)

(***************************************************************************)
(* C24: in the Extended parser, whenever fewer bytes than a sector's        *)
(* payload length remain in the track block -- none, or some but not all -- *)
(* the sector is still emitted, with the bytes that remain followed by      *)
(* zeros, parsing goes on to a model, and a short-read warning is logged    *)
(* for that sector.                                                         *)
(***************************************************************************)
C24_ShortReadWarned ==
    ExtParsedOK =>
      \A n \in 1..Len(dsk.tracks) : \A s \in 1..Len(dsk.tracks[n].sectors) :
        ExtShort(n, s) =>
          LET sec  == dsk.tracks[n].sectors[s]
              t    == ExtBlockOfTrack(n)
              from == ExtTakenBefore(n, s)
          IN  /\ sec.data = Slice(t, from, Len(t))
                              \o Rep(0, Len(sec.data) - ExtLeftFor(n, s))
              /\ \E w \in 1..Len(dsk.warnings) :
                   dsk.warnings[w] =
                     Warning("short", dsk.tracks[n].header.trackNum, sec.info.R)

\* a Standard track block the parser reads sectors from under the limits of
\* its header checks: a sector count of at most 64 whose descriptors lie in
\* the first 256 bytes, and a size code of at most 7
StdCount(b) == b[22]
StdCode(b) == b[21]
StdCodeLength(b) == IF StdCode(b) = 6 THEN 6144 ELSE 128 * Pow2(StdCode(b))
StdWithinLimits(b) ==
    StdCount(b) <= 64 /\ 24 + 6 * StdCount(b) <= HeaderSize /\ StdCode(b) <= 7

\* the payload of the s-th sector of block b as the bytes from offset 0x100
\* give it: what is there, then zeros
StdPadded(b, s) ==
    LET from == Min(Len(b), HeaderSize + (s - 1) * StdCodeLength(b))
        to   == Min(Len(b), HeaderSize + s * StdCodeLength(b))
    IN  Slice(b, from, to) \o Rep(0, StdCodeLength(b) - (to - from))

(***************************************************************************)
(* C25: in the Standard parser a sector payload that extends past the end   *)
(* of the fixed-size track block is never fatal: when every block is either *)
(* taken as unformatted or has a sector count <= 64 and a size code <= 7,   *)
(* also when fewer bytes than one sector length follow offset 0x100 of a    *)
(* block, the parser returns a model with every sector of every block,      *)
(* zero-padded, and a warning for each sector cut short.                    *)
(***************************************************************************)
C25_PastEndNotFatal ==
    (pc = "parsed" /\ LoopReached
       /\ \A i \in DeclaredPositions :
            UniformStart(BlockAt(i)) \/ StdWithinLimits(BlockAt(i))) =>
      /\ dsk.status = "ok"
      /\ \A i \in DeclaredPositions :
           LET b == BlockAt(i)
           IN  ~UniformStart(b) =>
                 /\ Len(dsk.tracks[i + 1].sectors) = StdCount(b)
                 /\ \A s \in 1..StdCount(b) :
                      /\ dsk.tracks[i + 1].sectors[s].data = StdPadded(b, s)
                      /\ HeaderSize + s * StdCodeLength(b) > Len(b) =>
                           \E w \in 1..Len(dsk.warnings) :
                             dsk.warnings[w].kind = "short"

\* the block starts with the 13 bytes "Track-Info", CR, LF, NUL
HasTrackTag(b) == Len(b) >= 13 /\ SubSeq(b, 1, 13) = TrackSignature

(***************************************************************************)
(* C26: the Standard parser applies the unformatted-track heuristic and     *)
(* logs a signature-mismatch warning only for track blocks whose 13-byte    *)
(* header signature differs from the expected tag ("Track-Info", CR, LF,    *)
(* NUL): in a model it returns, a block that carries the expected tag is    *)
(* parsed as a formatted track, with the header the block holds, and no     *)
(* signature warning is logged for its position.                            *)
(***************************************************************************)
C26_TagNotWarned ==
    (ParsedOK /\ LoopReached) =>
      \A i \in DeclaredPositions :
        HasTrackTag(BlockAt(i)) =>
          /\ dsk.tracks[i + 1].header = ReadTrackHeader(BlockAt(i))
          /\ \A w \in 1..Len(dsk.warnings) : dsk.warnings[w] # Warning("sig", i, 0)

\* the buffer is shorter than a size it declares: than the disk header, in
\* Extended than the end of the block of a declared position with a nonzero
\* table entry, in Standard than the header and every declared block
ShortHeader == Len(image) < HeaderSize
ShortExtended ==
    /\ Len(image) >= HeaderSize
    /\ SubSeq(image, 1, 8) = TagExtended
    /\ \E i \in ExtNonzero(ReadDiskHeader(image)) :
         Len(image) < ExtOffsetOf(ReadDiskHeader(image), i)
                        + ReadDiskHeader(image).table[i + 1] * 256
ShortStandard ==
    /\ GivenToStandard
    /\ Len(image) < HeaderSize + DeclaredTracks * DeclaredSides * DeclaredTrackSize

\* the program stopped in a run-time panic instead of returning
Panicked ==
    dsk.status \in {"panic: index out of range", "panic: makeslice: len out of range"}

GivenToExtended == Len(image) >= HeaderSize /\ SubSeq(image, 1, 8) = TagExtended

(***************************************************************************)
(* C28: parseExtendedDSK never reads the track-size table at an index       *)
(* outside 0..203: for every track count and side count of the header (each *)
(* 0..255), products above 204 included, it either returns a model or       *)
(* returns an error, and never fails with an out-of-range access.           *)
(***************************************************************************)
C28_TableIndexInRange ==
    (pc = "parsed" /\ GivenToExtended) => dsk.status # "panic: index out of range"

\* the characters of the hex-mode tokens encodeASCIIHex writes: the digits of
\* %02X and %X, and the '*' of a run
HexTokenChars == (48..57) \cup (65..70) \cup {42}

(***************************************************************************)
(* C29: the toggle byte chosen by chooseToggle is never a character that    *)
(* encodeASCIIHex emits inside hex-mode tokens (the hex digits '0'-'9' and  *)
(* 'A'-'F', and '*'): when the encoded text holds more than the bytes       *)
(* copied as text and the closing toggle, and so a hex-mode token, the      *)
(* toggle is none of those characters, and every occurrence of it before    *)
(* the last character is a mode switch.                                     *)
(***************************************************************************)
C29_ToggleNotInTokens ==
    (cpc \in {"written", "read"} /\ dataFormat = "asciihex" /\ cdata # <<>>
       /\ Len(cenc) > Len(encodeScan(cdata).lit) + 1) =>
      chooseToggle(cdata) \notin HexTokenChars

(***************************************************************************)
(* C30: in every track block written by Pack, the number of sector          *)
(* descriptors written equals the sector-count byte written in the block's  *)
(* track header, and the payload written for each descriptor is the content *)
(* of the payload file of the sector it describes; for any directory, one   *)
(* written by Unpack from a track in which two sectors share a sector ID    *)
(* included.                                                                *)
(***************************************************************************)
C30_CountMatchesDescriptors ==
    (pc = "packed" /\ packed.err = "") =>
      \A n \in 1..Len(packed.blocks) :
        LET b   == packed.blocks[n]
            dir == fs.tracks[PackTrackDir(fs, b.pos, PackSidesField(fs))]
        IN  /\ Len(b.infos) = b.header.sectorCount
            /\ \A k \in 1..Len(b.infos) :
                 LET name == PayloadName(b.infos[k].R, ExtOf(b.formats[k]))
                 IN  /\ Has(dir.payload, name)
                     /\ b.payloads[k] = FormatRead(b.formats[k], dir.payload[name]).bytes

====
